---- MODULE Spec2Model ----
(***************************************************************************)
(* A model of the departures board: the train departure normalizer of      *)
(* train_departures.py (due-in computation, platform inference, grouping   *)
(* and platform ordering), the grouping of departures_to_file.py, the      *)
(* line-status normalizer of app.py, the fetches of bus_departures.py and  *)
(* weather_forecast.py with their retry loops, the forecast segmenter, the *)
(* extraction of the services of a board, and the page handler index of    *)
(* app.py with its cache file.                                             *)
(*                                                                         *)
(* Python text is modelled by TLA+ strings; Len, SubSeq and \o act on them *)
(* character by character.  The module is written in ASCII, so the         *)
(* em-dash (U+2014) of app.py is written as the character EmDash.          *)
(* Python's None is the empty tuple, and an optional integer n is <<n>>.   *)
(***************************************************************************)
EXTENDS Integers, Sequences, FiniteSets, TLC

VARIABLES
    raw,            \* get_train_departures: the list returned by get_departures
    clock,          \* the instant datetime.now() returns, in ticks since midnight
    i,              \* number of entries of raw the loop has finished
    pc,             \* position of get_train_departures
    use_time,       \* _calculate_due_in: its local use_time when it returned
    due_in,         \* get_train_departures: the local due_in of the current entry
    t,              \* the current entry with due_in_mins / due_in_text stored
    grouped,        \* the defaultdict grouped, in key insertion order
    sorted_grouped, \* the returned mapping, in key order
    fi,             \* write_departures_to_file: entries grouped so far
    fpc,            \* position of write_departures_to_file
    fgrouped,       \* its defaultdict grouped, in key insertion order
    fout,           \* the platform sections written to departures.txt, in order
    tubes,          \* _normalize_tubes: the argument raw
    ti,             \* number of entries of tubes the loop has finished
    tpc,            \* position of _normalize_tubes
    parsed,         \* its locals name, status, reason for the current entry
    out,            \* its list out
    bus_feed,       \* the arrivals the bus API holds, sent on a successful request
    bus_limit,      \* get_bus_departures: its argument limit
    bus_pc,         \* position of get_bus_departures
    bus_attempt,    \* its loop variable attempt
    bus_log,        \* the requests it issued and the sleeps it made, in order
    bus_data,       \* its local data
    buses,          \* the value it returned
    w_feed,         \* the forecast the weather API holds
    w_pc,           \* position of get_todays_weather
    w_attempt,      \* its loop variable attempt
    w_log,          \* the requests it issued and the sleeps it made, in order
    js,             \* its local js
    forecast,       \* its local forecast, the segment summaries
    current_hour,   \* its local current_hour
    hourly_forecast,\* its local hourly_forecast
    weather,        \* the value it returned
    services,       \* get_departures: the list services xmltodict gave
    results,        \* its list results
    svc_pc,         \* position of get_train_departures over get_departures
    svc_i,          \* number of services the loop of get_departures has finished
    norm_i,         \* number of results the loop of get_train_departures has finished
    norm_grouped,   \* its defaultdict grouped, in key insertion order
    norm_out,       \* the mapping it returned
    cache_file,     \* .cache/trains.json: None while absent, else its content
    req_pc,         \* index: the position of each request in the handler
    fetched,        \* what get_train_departures did for each request
    trains,         \* the local trains of each request
    app_log,        \* the messages each request gave app.logger
    page            \* the context the request passed to render_template

vars == <<raw, clock, i, pc, use_time, due_in, t, grouped, sorted_grouped,
          fi, fpc, fgrouped, fout, tubes, ti, tpc, parsed, out,
          bus_feed, bus_limit, bus_pc, bus_attempt, bus_log, bus_data, buses,
          w_feed, w_pc, w_attempt, w_log, js, forecast, current_hour,
          hourly_forecast, weather,
          services, results, svc_pc, svc_i, norm_i, norm_grouped, norm_out,
          cache_file, req_pc, fetched, trains, app_log, page>>

trainVars == <<raw, clock, i, pc, use_time, due_in, t, grouped, sorted_grouped>>
fileVars == <<fi, fpc, fgrouped, fout>>
tubeVars == <<tubes, ti, tpc, parsed, out>>
busVars == <<bus_feed, bus_limit, bus_pc, bus_attempt, bus_log, bus_data, buses>>
weatherVars == <<w_feed, w_pc, w_attempt, w_log, js, forecast, current_hour,
                 hourly_forecast, weather>>
svcVars == <<services, results, svc_pc, svc_i, norm_i, norm_grouped, norm_out>>
handlerVars == <<cache_file, req_pc, fetched, trains, app_log, page>>
otherVars == <<busVars, weatherVars, svcVars, handlerVars>>

None == <<>>
Some(n) == <<n>>

(***************************************************************************)
(* Text: the str methods the code uses.                                    *)
(***************************************************************************)
Char(s, k) == SubSeq(s, k, k)

UpperCase == "ABCDEFGHIJKLMNOPQRSTUVWXYZ"
LowerCase == "abcdefghijklmnopqrstuvwxyz"
Digits == "0123456789"
Whitespace == {" ", "\t"}

\* str.find with a one-character needle: the first position, 0 when absent.
RECURSIVE IndexFrom(_, _, _)
IndexFrom(c, s, k) ==
    IF k > Len(s) THEN 0
    ELSE IF Char(s, k) = c THEN k
    ELSE IndexFrom(c, s, k + 1)

IndexOf(c, s) == IndexFrom(c, s, 1)

LowerChar(c) ==
    LET k == IndexOf(c, UpperCase)
    IN  IF k = 0 THEN c ELSE Char(LowerCase, k)

RECURSIVE Lower(_)
Lower(s) ==
    IF s = "" THEN "" ELSE LowerChar(Head(s)) \o Lower(Tail(s))

RECURSIVE LStrip(_)
LStrip(s) ==
    IF s # "" /\ Head(s) \in Whitespace THEN LStrip(Tail(s)) ELSE s

RECURSIVE RStrip(_)
RStrip(s) ==
    IF s # "" /\ Char(s, Len(s)) \in Whitespace
    THEN RStrip(SubSeq(s, 1, Len(s) - 1))
    ELSE s

Strip(s) == RStrip(LStrip(s))

StartsWith(s, prefix) ==
    /\ Len(prefix) <= Len(s)
    /\ SubSeq(s, 1, Len(prefix)) = prefix

\* str.find: the first position at which sub occurs in s, 0 when it does not.
RECURSIVE FindFrom(_, _, _)
FindFrom(s, sub, k) ==
    IF k + Len(sub) - 1 > Len(s) THEN 0
    ELSE IF SubSeq(s, k, k + Len(sub) - 1) = sub THEN k
    ELSE FindFrom(s, sub, k + 1)

Find(s, sub) == FindFrom(s, sub, 1)

\* Python's "sub in s".
Contains(s, sub) == Find(s, sub) # 0

IsDigitChar(c) == IndexOf(c, Digits) # 0

\* str.isdigit: non-empty and every character a digit.
RECURSIVE AllDigits(_)
AllDigits(s) ==
    IF s = "" THEN TRUE ELSE IsDigitChar(Head(s)) /\ AllDigits(Tail(s))

IsDigit(s) == s # "" /\ AllDigits(s)

\* The value of a string of digits.
RECURSIVE DigitsValue(_)
DigitsValue(s) ==
    IF s = "" THEN 0
    ELSE 10 * DigitsValue(SubSeq(s, 1, Len(s) - 1)) + (IndexOf(Char(s, Len(s)), Digits) - 1)

\* int(text): None when Python raises ValueError.  Surrounding whitespace and
\* one sign are accepted.
ParseInt(s) ==
    LET body == Strip(s)
        signed == body # "" /\ Head(body) \in {"+", "-"}
        digits == IF signed THEN Tail(body) ELSE body
    IN  IF ~IsDigit(digits) THEN None
        ELSE IF signed /\ Head(body) = "-" THEN Some(0 - DigitsValue(digits))
        ELSE Some(DigitsValue(digits))

\* str(n) for an integer n >= 0.
RECURSIVE Str(_)
Str(n) ==
    IF n < 10 THEN Char(Digits, n + 1)
    ELSE Str(n \div 10) \o Char(Digits, (n % 10) + 1)

(***************************************************************************)
(* Time.  An instant of the day is a number of ticks since midnight.       *)
(***************************************************************************)
TicksPerSec == 2
SecsPerMin == 60
SecsPerDay == 86400
RolloverSecs == 300
DueThreshold == 1

TicksPerMin == SecsPerMin * TicksPerSec
TicksPerDay == SecsPerDay * TicksPerSec

\* datetime.strptime(text, "%H:%M"): the minute of the day, None on ValueError.
\* The hour is one or two digits up to 23, the minute one or two digits up to 59.
Strptime(text) ==
    LET c == IndexOf(":", text)
        hh == SubSeq(text, 1, c - 1)
        mm == SubSeq(text, c + 1, Len(text))
    IN  IF c = 0 THEN None
        ELSE IF ~(IsDigit(hh) /\ Len(hh) <= 2 /\ IsDigit(mm) /\ Len(mm) <= 2) THEN None
        ELSE IF DigitsValue(hh) > 23 \/ DigitsValue(mm) > 59 THEN None
        ELSE Some(DigitsValue(hh) * 60 + DigitsValue(mm))

(***************************************************************************)
(* train_departures.py: get_train_departures.                              *)
(***************************************************************************)
CancelledTexts == {"cancelled", "no report"}
NotATimeTexts == {"on time", "ontime", "due", "", "delayed"}

\* Line 134: etd_clean = (etd or "").strip().lower()
etd_clean_keep_case(etd) == Strip(etd)
etd_clean(etd) == Lower(Strip(etd))

\* Lines 135-144: the local use_time, etd when it reads as a clock time.
choose_time_any_text(std, etd) ==
    IF etd_clean(etd) \notin NotATimeTexts THEN etd ELSE std
choose_time(std, etd) ==
    IF etd_clean(etd) \notin NotATimeTexts /\ Contains(etd_clean(etd), ":")
    THEN etd ELSE std

\* Lines 153-155: the midnight rollover of dep_time, both in ticks of today.
rollover_inclusive(dep_time, now) ==
    IF dep_time - now <= 0 - RolloverSecs * TicksPerSec
    THEN dep_time + TicksPerDay ELSE dep_time
rollover(dep_time, now) ==
    IF dep_time - now < 0 - RolloverSecs * TicksPerSec
    THEN dep_time + TicksPerDay ELSE dep_time

\* Lines 159-163: the text for diff whole minutes.
due_text_below_one(diff) == IF diff < DueThreshold THEN "Due" ELSE Str(diff)
due_text(diff) == IF diff <= DueThreshold THEN "Due" ELSE Str(diff)

\* _calculate_due_in(std, etd) called when datetime.now() returns now: the
\* text it returns and the value of its local use_time at that point.  A
\* ValueError of strptime is caught by its except clause, which returns "".
calculate_due_in(std, etd, now) ==
    LET chosen == choose_time(std, etd)
        hm == Strptime(chosen)
        dep_time == rollover(hm[1] * TicksPerMin, now)
        diff == (dep_time - now) \div TicksPerMin
    IN  IF etd_clean(etd) \in CancelledTexts THEN [use_time |-> std, text |-> ""]
        ELSE IF chosen = "" THEN [use_time |-> chosen, text |-> ""]
        ELSE IF hm = None THEN [use_time |-> chosen, text |-> ""]
        ELSE [use_time |-> chosen, text |-> due_text(diff)]

\* The dict literal likely_platform, in insertion order.
likely_platform ==
    << <<"Sutton", "4">>, <<"Sutton (London)", "4">>, <<"Orpington", "3">>,
       <<"London Victoria", "2">>, <<"St Albans", "1">>, <<"St Albans City", "1">> >>

\* likely_platform.get(destination)
RECURSIVE TableGet(_, _)
TableGet(table, key) ==
    IF table = <<>> THEN None
    ELSE IF Head(table)[1] = key THEN Some(Head(table)[2])
    ELSE TableGet(Tail(table), key)

\* next((p for k, p in likely_platform.items() if destination.startswith(k)), "-")
RECURSIVE FirstPrefix(_, _)
FirstPrefix(table, destination) ==
    IF table = <<>> THEN "-"
    ELSE IF StartsWith(destination, Head(table)[1]) THEN Head(table)[2]
    ELSE FirstPrefix(Tail(table), destination)

\* Lines 196-203: the platform an entry is grouped under.
group_platform_always_inferred(entry) ==
    LET exact == TableGet(likely_platform, entry.destination)
    IN  IF exact # None THEN exact[1]
        ELSE IF FirstPrefix(likely_platform, entry.destination) # "-"
        THEN FirstPrefix(likely_platform, entry.destination)
        ELSE IF entry.platform = "" THEN "-" ELSE entry.platform
group_platform(entry) ==
    LET platform == IF entry.platform = "" THEN "-" ELSE entry.platform
        exact == TableGet(likely_platform, entry.destination)
    IN  IF platform # "-" THEN platform
        ELSE IF exact # None THEN exact[1]
        ELSE FirstPrefix(likely_platform, entry.destination)

\* Lines 186-194: the entry with due_in_mins and due_in_text stored in it.
store_due_in_due_is_zero(entry, text) ==
    [idx |-> entry.idx, std |-> entry.std, etd |-> entry.etd,
     platform |-> entry.platform, destination |-> entry.destination,
     due_in_mins |-> IF text = "" THEN None
                     ELSE IF text = "Due" THEN Some(0) ELSE ParseInt(text),
     due_in_text |-> text]
store_due_in(entry, text) ==
    [idx |-> entry.idx, std |-> entry.std, etd |-> entry.etd,
     platform |-> entry.platform, destination |-> entry.destination,
     due_in_mins |-> IF text \in {"", "Due"} THEN None ELSE ParseInt(text),
     due_in_text |-> text]

\* A dict of lists is a sequence of [platform, items] in key insertion order.
KeyIndex(d, key) ==
    IF \E k \in 1..Len(d) : d[k].platform = key
    THEN CHOOSE k \in 1..Len(d) : d[k].platform = key
    ELSE 0

\* grouped[key].append(item) on a defaultdict(list)
dict_append_replacing(d, key, item) ==
    LET k == KeyIndex(d, key)
    IN  IF k = 0 THEN Append(d, [platform |-> key, items |-> <<item>>])
        ELSE [d EXCEPT ![k].items = <<item>>]
dict_append(d, key, item) ==
    LET k == KeyIndex(d, key)
    IN  IF k = 0 THEN Append(d, [platform |-> key, items |-> <<item>>])
        ELSE [d EXCEPT ![k].items = Append(@, item)]

\* The printable ASCII characters in code point order (without the backquote,
\* which a TLA+ string cannot hold); EmDash, the last of them, sorts last.
Ascii == " !\"#$%&'()*+,-./0123456789:;<=>?@ABCDEFGHIJKLMNOPQRSTUVWXYZ[\\]^_abcdefghijklmnopqrstuvwxyz{|}~"
Ord(c) == IndexOf(c, Ascii)

\* Python's a < b on str: by code point, a proper prefix first.
RECURSIVE StrLess(_, _)
StrLess(a, b) ==
    IF b = "" THEN FALSE
    ELSE IF a = "" THEN TRUE
    ELSE IF Head(a) = Head(b) THEN StrLess(Tail(a), Tail(b))
    ELSE Ord(Head(a)) < Ord(Head(b))

\* _sort_key(item): (0, int(k)), or (1, k) when int(k) raises.
train_sort_key(k) ==
    LET n == ParseInt(k)
    IN  IF n # None THEN [class |-> 0, num |-> n[1], text |-> ""]
        ELSE [class |-> 1, num |-> 0, text |-> k]

\* Python's a < b on the key tuples.
KeyLess(a, b) ==
    \/ a.class < b.class
    \/ a.class = b.class /\ a.num < b.num
    \/ a.class = b.class /\ a.num = b.num /\ StrLess(a.text, b.text)

\* sorted(items, key=...) computes each item's key once and sorts the
\* [key, item] pairs; it is stable: a pair goes after the pairs whose key is
\* not greater than its own.
RECURSIVE InsertByKey(_, _)
InsertByKey(sortedPairs, pair) ==
    IF sortedPairs = <<>> THEN <<pair>>
    ELSE IF KeyLess(pair.key, Head(sortedPairs).key) THEN <<pair>> \o sortedPairs
    ELSE <<Head(sortedPairs)>> \o InsertByKey(Tail(sortedPairs), pair)

RECURSIVE SortedByKey(_)
SortedByKey(pairs) ==
    IF pairs = <<>> THEN <<>>
    ELSE InsertByKey(SortedByKey(SubSeq(pairs, 1, Len(pairs) - 1)), pairs[Len(pairs)])

ItemsOf(pairs) == [k \in 1..Len(pairs) |-> pairs[k].item]

\* Line 215: dict(sorted(grouped.items(), key=_sort_key))
sort_grouped(d) ==
    ItemsOf(SortedByKey([k \in 1..Len(d) |->
                [key |-> train_sort_key(d[k].platform), item |-> d[k]]]))

CalculateDueIn ==
    /\ pc = "calc"
    /\ i < Len(raw)
    /\ LET r == calculate_due_in(raw[i + 1].std, raw[i + 1].etd, clock)
       IN  /\ use_time' = r.use_time
           /\ due_in' = r.text
    /\ pc' = "store"
    /\ UNCHANGED <<raw, clock, i, t, grouped, sorted_grouped, fileVars, tubeVars, otherVars>>

StoreDueIn ==
    /\ pc = "store"
    /\ t' = store_due_in(raw[i + 1], due_in)
    /\ pc' = "group"
    /\ UNCHANGED <<raw, clock, i, use_time, due_in, grouped, sorted_grouped,
                   fileVars, tubeVars, otherVars>>

GroupEntry ==
    /\ pc = "group"
    /\ grouped' = dict_append(grouped, group_platform(t), t)
    /\ i' = i + 1
    /\ pc' = "calc"
    /\ UNCHANGED <<raw, clock, use_time, due_in, t, sorted_grouped, fileVars, tubeVars, otherVars>>

SortGrouped ==
    /\ pc = "calc"
    /\ i = Len(raw)
    /\ sorted_grouped' = sort_grouped(grouped)
    /\ pc' = "done"
    /\ UNCHANGED <<raw, clock, i, use_time, due_in, t, grouped, fileVars, tubeVars, otherVars>>

NextTrains == CalculateDueIn \/ StoreDueIn \/ GroupEntry \/ SortGrouped

(***************************************************************************)
(* departures_to_file.py: write_departures_to_file, whose argument         *)
(* departures is the list raw.                                             *)
(***************************************************************************)
infer_platform_from_destination(dest) ==
    LET d == Lower(dest)
    IN  IF Contains(d, "sutton") THEN Some("4")
        ELSE IF Contains(d, "orpington") THEN Some("3")
        ELSE IF Contains(d, "victoria") THEN Some("2")
        ELSE IF Contains(d, "albans") THEN Some("1")
        ELSE None

\* Lines 99-103: the platform a departure is grouped under.
file_group_platform(entry) ==
    LET inferred == infer_platform_from_destination(entry.destination)
    IN  IF entry.platform # "" /\ entry.platform # "-" THEN entry.platform
        ELSE IF inferred # None THEN inferred[1]
        ELSE "-"

\* sort_key(p): (not p.isdigit(), int(p) if p.isdigit() else p)
file_sort_key(p) ==
    IF IsDigit(p) THEN [class |-> 0, num |-> DigitsValue(p), text |-> ""]
    ELSE [class |-> 1, num |-> 0, text |-> p]

\* Lines 113-118: a section per platform of sorted(grouped.keys(), key=sort_key).
write_sections(d) ==
    ItemsOf(SortedByKey([k \in 1..Len(d) |->
                [key |-> file_sort_key(d[k].platform), item |-> d[k]]]))

FileGroupEntry ==
    /\ fpc = "group"
    /\ fi < Len(raw)
    /\ fgrouped' = dict_append(fgrouped, file_group_platform(raw[fi + 1]), raw[fi + 1])
    /\ fi' = fi + 1
    /\ UNCHANGED <<fpc, fout, trainVars, tubeVars, otherVars>>

FileWrite ==
    /\ fpc = "group"
    /\ fi = Len(raw)
    /\ fout' = write_sections(fgrouped)
    /\ fpc' = "done"
    /\ UNCHANGED <<fi, fgrouped, trainVars, tubeVars, otherVars>>

NextFile == FileGroupEntry \/ FileWrite

(***************************************************************************)
(* app.py: _normalize_tubes.  A raw entry is a dict (a function from keys  *)
(* to text) or any other value, of which the code takes str(t).            *)
(***************************************************************************)
EmDash == "~"

LINE_COLOURS ==
    << <<"bakerloo", "#ae6118">>, <<"central", "#dc241f">>, <<"circle", "#f3ce0f">>,
       <<"district", "#00782a">>, <<"dlr", "#00afad">>, <<"elizabethline", "#6950a1">>,
       <<"hammersmithandcity", "#f4a9be">>, <<"jubilee", "#868f98">>,
       <<"metropolitan", "#751056">>, <<"northern", "#000000">>,
       <<"overground", "#e86a10">>, <<"piccadilly", "#0019a8">>, <<"tram", "#66c61a">>,
       <<"victoria", "#00a0e2">>, <<"waterlooandcity", "#76d0a3">>,
       <<"waterloocity", "#76d0a3">> >>

DefaultColour == "#3f3f46"

\* An optional text is None or <<text>>; Python's "a or b" on optional texts.
Falsy(a) == a = None \/ a = Some("")
OrElse(a, b) == IF Falsy(a) THEN b ELSE a
TextOf(a) == IF a = None THEN "" ELSE a[1]

\* t.get(key) on a dict
DictGet(d, key) == IF key \in DOMAIN d THEN Some(d[key]) ELSE None

IsAlnumChar(c) ==
    IndexOf(c, UpperCase) # 0 \/ IndexOf(c, LowerCase) # 0 \/ IsDigitChar(c)

RECURSIVE KeepAlnum(_)
KeepAlnum(s) ==
    IF s = "" THEN ""
    ELSE (IF IsAlnumChar(Head(s)) THEN Head(s) ELSE "") \o KeepAlnum(Tail(s))

\* _line_key(name)
line_key(name) == IF Falsy(name) THEN "" ELSE KeepAlnum(Lower(name[1]))

MajorWords == {"major", "severe", "significant"}
WarnWords == {"minor", "part", "planned", "closure", "reduced"}

\* detect_severity(status_text), status_text an optional text
detect_severity_case_sensitive(status_text) ==
    LET s == TextOf(status_text)
    IN  IF \E k \in MajorWords : Contains(s, k) THEN "major"
        ELSE IF \E k \in WarnWords : Contains(s, k) THEN "warn"
        ELSE "good"
detect_severity(status_text) ==
    LET s == Lower(TextOf(status_text))
    IN  IF \E k \in MajorWords : Contains(s, k) THEN "major"
        ELSE IF \E k \in WarnWords : Contains(s, k) THEN "warn"
        ELSE "good"

\* [p.strip() for p in s.split(sep, 1)], for a separator that occurs in s
split_once(s, sep) ==
    LET k == Find(s, sep)
    IN  [name |-> Some(Strip(SubSeq(s, 1, k - 1))),
         status |-> Some(Strip(SubSeq(s, k + Len(sep), Len(s)))),
         reason |-> Some("")]

\* Lines 57-88: the locals name, status and reason for one raw entry.
parse_entry_dash_first(entry) ==
    LET s == entry.text
    IN  IF Contains(s, " - ") THEN split_once(s, " - ")
        ELSE IF Contains(s, ":") THEN split_once(s, ":")
        ELSE IF Contains(s, EmDash) THEN split_once(s, EmDash)
        ELSE [name |-> Some(s), status |-> Some(""), reason |-> Some("")]
parse_entry(entry) ==
    IF entry.kind = "dict"
    THEN LET d == entry.dict
         IN  [name |-> OrElse(DictGet(d, "name"), OrElse(DictGet(d, "lineName"),
                        OrElse(DictGet(d, "line"), DictGet(d, "id")))),
              status |-> OrElse(DictGet(d, "status"),
                         OrElse(DictGet(d, "lineStatus"), DictGet(d, "description"))),
              reason |-> OrElse(DictGet(d, "reason"), OrElse(DictGet(d, "details"),
                         OrElse(DictGet(d, "additionalInfo"), Some(""))))]
    ELSE LET s == entry.text
         IN  IF Contains(s, ":") THEN split_once(s, ":")
             ELSE IF Contains(s, " - ") THEN split_once(s, " - ")
             ELSE IF Contains(s, EmDash) THEN split_once(s, EmDash)
             ELSE [name |-> Some(s), status |-> Some(""), reason |-> Some("")]

\* Lines 90-100: the record appended to out.
status_record(idx, p) ==
    LET colour == TableGet(LINE_COLOURS, line_key(p.name))
    IN  [idx |-> idx,
         name |-> TextOf(OrElse(p.name, Some("Unknown"))),
         status |-> TextOf(OrElse(p.status, Some("Unknown"))),
         severity |-> detect_severity(OrElse(p.status, p.reason)),
         color |-> IF colour = None THEN DefaultColour ELSE colour[1],
         reason |-> TextOf(p.reason)]

\* order.get(x.get("severity", "good"), 2)
severity_order(rec) ==
    IF rec.severity = "major" THEN 0 ELSE IF rec.severity = "warn" THEN 1 ELSE 2

\* Line 104: out.sort(key=...); the keys are integers.
sort_out_ties_reversed(records) ==
    ItemsOf(SortedByKey([k \in 1..Len(records) |->
                [key |-> [class |-> severity_order(records[Len(records) + 1 - k]),
                          num |-> 0, text |-> ""],
                 item |-> records[Len(records) + 1 - k]]]))
sort_out(records) ==
    ItemsOf(SortedByKey([k \in 1..Len(records) |->
                [key |-> [class |-> severity_order(records[k]), num |-> 0, text |-> ""],
                 item |-> records[k]]]))

ParseEntry ==
    /\ tpc = "parse"
    /\ ti < Len(tubes)
    /\ parsed' = parse_entry(tubes[ti + 1])
    /\ tpc' = "append"
    /\ UNCHANGED <<tubes, ti, out, trainVars, fileVars, otherVars>>

AppendEntry ==
    /\ tpc = "append"
    /\ out' = Append(out, status_record(ti + 1, parsed))
    /\ ti' = ti + 1
    /\ tpc' = "parse"
    /\ UNCHANGED <<tubes, parsed, trainVars, fileVars, otherVars>>

SortOut ==
    /\ tpc = "parse"
    /\ ti = Len(tubes)
    /\ out' = sort_out(out)
    /\ tpc' = "done"
    /\ UNCHANGED <<tubes, ti, parsed, trainVars, fileVars, otherVars>>

NextTubes == ParseEntry \/ AppendEntry \/ SortOut

(***************************************************************************)
(* The upstream requests.  A request ends with a response whose status is  *)
(* a success ("ok") or with one of the exceptions of the requests library, *)
(* all of them subclasses of RequestException: a read timeout, a connect   *)
(* timeout, a connection error, or the HTTPError that raise_for_status     *)
(* raises for an error status.                                             *)
(***************************************************************************)
RequestExceptions == {"ReadTimeout", "ConnectTimeout", "ConnectionError", "HTTPError"}
RequestOutcomes == {"ok"} \cup RequestExceptions

\* An entry of the log of a fetch: a request with its outcome, or a sleep
\* with its length in seconds.
Requested(outcome) == [ev |-> "request", outcome |-> outcome, wait |-> 0]
Slept(seconds) == [ev |-> "sleep", outcome |-> "", wait |-> seconds]

(***************************************************************************)
(* bus_departures.py: get_bus_departures, from the retry loop on (the stop *)
(* code is set).  An arrival of the feed carries lineName, destinationName *)
(* and timeToStation (seconds); the fields copied unchanged besides these  *)
(* (vehicleId, towards, stationName) are left out.                         *)
(***************************************************************************)
bus_max_retries == 3

\* Lines 39-49: what the except clauses do with the exception of the request
\* number attempt (from 0): sleep and go round the loop, return [], or let
\* the exception out.
bus_on_failure(exc, attempt) ==
    IF exc = "ReadTimeout"
    THEN IF attempt < bus_max_retries - 1 THEN "sleep" ELSE "return"
    ELSE IF exc \in RequestExceptions THEN "return"
    ELSE "raise"

\* Line 41: wait_time = 2 ** attempt
bus_wait_time(attempt) == 2 ^ attempt

\* int(x / 60) for an integer x: the quotient rounded towards zero.
IntDiv(x, d) == IF x >= 0 THEN x \div d ELSE 0 - ((0 - x) \div d)

\* Line 52: sorted(data, key=lambda x: x["timeToStation"]), a stable sort: an
\* arrival goes after those that are nearer and after the earlier ones of
\* those equally far.
sorted_position(keys, k) ==
    1 + Cardinality({j \in 1..Len(keys) : keys[j] < keys[k]})
      + Cardinality({j \in 1..(k - 1) : keys[j] = keys[k]})

sorted_by_time(data) ==
    LET keys == [k \in 1..Len(data) |-> data[k].timeToStation]
    IN  [p \in 1..Len(data) |->
            data[CHOOSE k \in 1..Len(data) : sorted_position(keys, k) = p]]

\* Lines 54-65: the departures built from the first limit arrivals.
bus_departures(data, limit) ==
    LET sorted_data == sorted_by_time(data)
        shown == SubSeq(sorted_data, 1, IF limit < Len(sorted_data) THEN limit
                                        ELSE Len(sorted_data))
    IN  [k \in 1..Len(shown) |->
            [line |-> shown[k].lineName,
             destination |-> shown[k].destinationName,
             expected_in_min |-> IntDiv(shown[k].timeToStation, SecsPerMin)]]

\* Lines 33-49: one round of the loop up to the end of its try statement.
BusRequest ==
    /\ bus_pc = "request"
    /\ \E outcome \in RequestOutcomes :
          /\ bus_log' = Append(bus_log, Requested(outcome))
          /\ IF outcome = "ok"
             THEN /\ bus_data' = bus_feed
                  /\ bus_pc' = "process"
                  /\ buses' = buses
             ELSE /\ bus_data' = bus_data
                  /\ bus_pc' = CASE bus_on_failure(outcome, bus_attempt) = "sleep" -> "sleep"
                                 [] bus_on_failure(outcome, bus_attempt) = "return" -> "done"
                                 [] OTHER -> "raised"
                  /\ buses' = IF bus_on_failure(outcome, bus_attempt) = "return"
                              THEN <<>> ELSE buses
    /\ UNCHANGED <<bus_feed, bus_limit, bus_attempt, weatherVars,
                   trainVars, fileVars, tubeVars, svcVars, handlerVars>>

\* Line 43: time.sleep(wait_time), then the next round of the loop.
BusSleep ==
    /\ bus_pc = "sleep"
    /\ bus_log' = Append(bus_log, Slept(bus_wait_time(bus_attempt)))
    /\ bus_attempt' = bus_attempt + 1
    /\ bus_pc' = "request"
    /\ UNCHANGED <<bus_feed, bus_limit, bus_data, buses, weatherVars,
                   trainVars, fileVars, tubeVars, svcVars, handlerVars>>

BusProcess ==
    /\ bus_pc = "process"
    /\ buses' = bus_departures(bus_data, bus_limit)
    /\ bus_pc' = "done"
    /\ UNCHANGED <<bus_feed, bus_limit, bus_attempt, bus_log, bus_data, weatherVars,
                   trainVars, fileVars, tubeVars, svcVars, handlerVars>>

NextBus == BusRequest \/ BusSleep \/ BusProcess

(***************************************************************************)
(* weather_forecast.py: get_todays_weather.  The payload js has the hourly *)
(* series (a sample per hour: the hour of its time and its temperature,    *)
(* rain probability and wind speed, whole numbers) and the daily series    *)
(* (sunrise and sunset as ISO texts).  A float the code rounds to one      *)
(* decimal is modelled by its number of tenths, so 20.0 is 200.  Of a      *)
(* segment the averaged fields temp, rain_probability and wind_speed are   *)
(* modelled; the glyph fields, the other averaged series (computed by the  *)
(* same segment_avg) and daily_forecast are left out.                      *)
(***************************************************************************)
weather_max_retries == 3
HourlyHorizon == 16

\* Lines 114-124: what the except clauses do with the exception of the
\* request number attempt (from 0).
weather_on_failure_retry_any(exc, attempt) ==
    IF exc \in RequestExceptions
    THEN IF attempt < weather_max_retries - 1 THEN "sleep" ELSE "return"
    ELSE "raise"
weather_on_failure(exc, attempt) ==
    IF exc = "ReadTimeout"
    THEN IF attempt < weather_max_retries - 1 THEN "sleep" ELSE "return"
    ELSE IF exc \in RequestExceptions THEN "return"
    ELSE "raise"

\* Line 116: wait_time = 2 ** attempt
weather_wait_time(attempt) == 2 ^ attempt

\* Lines 28-41: _get_default_weather(); the icons are written by name.
get_default_weather ==
    [high |-> 15, low |-> 8, sunrise |-> "07:00", sunset |-> "18:00",
     periods |->
        << [time |-> "Morning", temp |-> 10, rain |-> 20, wind |-> 15, icon |-> "sun_small_cloud"],
           [time |-> "Midday", temp |-> 14, rain |-> 10, wind |-> 12, icon |-> "sun"],
           [time |-> "Afternoon", temp |-> 16, rain |-> 5, wind |-> 10, icon |-> "sun"],
           [time |-> "Evening", temp |-> 12, rain |-> 15, wind |-> 8, icon |-> "sun_small_cloud"] >>]

\* Lines 143-148: the dict segments, in insertion order.
segments ==
    << [label |-> "morning", start |-> 6, end |-> 11],
       [label |-> "midday", start |-> 11, end |-> 14],
       [label |-> "afternoon", start |-> 14, end |-> 18],
       [label |-> "evening", start |-> 18, end |-> 21] >>

\* sum(values)
RECURSIVE SumTo(_, _)
SumTo(values, n) == IF n = 0 THEN 0 ELSE values[n] + SumTo(values, n - 1)
SumSeq(values) == SumTo(values, Len(values))

\* max(values) and min(values) of a non-empty list
MaxSeq(values) ==
    CHOOSE x \in {values[k] : k \in 1..Len(values)} :
        \A k \in 1..Len(values) : values[k] <= x

MinSeq(values) ==
    CHOOSE x \in {values[k] : k \in 1..Len(values)} :
        \A k \in 1..Len(values) : values[k] >= x

\* Line 151: relevant = [v for t, v in zip(times, values) if start <= t.hour < end]
\* hours and values are the parallel lists times (their hours) and values.
relevant_exclusive_start(hours, values, start, end) ==
    LET n == IF Len(hours) < Len(values) THEN Len(hours) ELSE Len(values)
        keep == {k \in 1..n : start < hours[k] /\ hours[k] < end}
    IN  [p \in 1..Cardinality(keep) |->
            values[CHOOSE k \in keep : Cardinality({j \in keep : j <= k}) = p]]
relevant(hours, values, start, end) ==
    LET n == IF Len(hours) < Len(values) THEN Len(hours) ELSE Len(values)
        keep == {k \in 1..n : start <= hours[k] /\ hours[k] < end}
    IN  [p \in 1..Cardinality(keep) |->
            values[CHOOSE k \in keep : Cardinality({j \in keep : j <= k}) = p]]

\* Lines 150-152: segment_avg; the mean sum / n is kept as the pair of its
\* sum and n, and is None when no sample is relevant.
segment_avg(hours, values, start, end) ==
    LET r == relevant(hours, values, start, end)
    IN  IF r = <<>> THEN None ELSE Some([sum |-> SumSeq(r), n |-> Len(r)])

\* round(sum / n, 1) in tenths: the nearest tenth, a tie going to the even
\* one.  (For whole-number samples a tie has the fraction .25 or .75, which
\* a float holds exactly.)
RoundTenths(sum, n) ==
    LET q == (10 * sum) \div n
        r == (10 * sum) % n
    IN  IF 2 * r < n THEN q
        ELSE IF 2 * r > n THEN q + 1
        ELSE IF q % 2 = 0 THEN q ELSE q + 1

\* round(avg or 0, 1)
round_or_zero(avg) == IF avg = None THEN 0 ELSE RoundTenths(avg[1].sum, avg[1].n)
\* round(avg, 1) if avg is not None else None
round_or_none(avg) == IF avg = None THEN None ELSE Some(RoundTenths(avg[1].sum, avg[1].n))

Column(series, field) == [k \in 1..Len(series) |-> series[k][field]]

\* Lines 160-179: the dict forecast, a summary per segment in segments order.
segment_forecast(hourly) ==
    [k \in 1..Len(segments) |->
        LET hours == Column(hourly, "hour")
            start == segments[k].start
            end == segments[k].end
        IN  [label |-> segments[k].label,
             rain_probability |->
                 round_or_zero(segment_avg(hours, Column(hourly, "rain_prob"), start, end)),
             temp |->
                 round_or_none(segment_avg(hours, Column(hourly, "temp"), start, end)),
             wind_speed |->
                 round_or_zero(segment_avg(hours, Column(hourly, "wind"), start, end))]]

\* "2025-10-26T06:45".split("T")[1][:5]
clock_of_iso(text) ==
    LET from == IndexOf("T", text)
        rest == SubSeq(text, from + 1, Len(text))
        upto == IndexOf("T", rest)
        part == IF upto = 0 THEN rest ELSE SubSeq(rest, 1, upto - 1)
    IN  SubSeq(part, 1, IF Len(part) < 5 THEN Len(part) ELSE 5)

\* Lines 228-236: the index (from 0) of the first time whose hour is
\* current_hour, 0 when there is none.
RECURSIVE first_hour_index_from(_, _, _)
first_hour_index_from(hours, hour, k) ==
    IF k >= Len(hours) THEN 0
    ELSE IF hours[k + 1] = hour THEN k
    ELSE first_hour_index_from(hours, hour, k + 1)
current_hour_index_last(hours, hour) ==
    IF \E k \in 1..Len(hours) : hours[k] = hour
    THEN (CHOOSE k \in 1..Len(hours) :
            hours[k] = hour /\ \A j \in (k + 1)..Len(hours) : hours[j] # hour) - 1
    ELSE 0
current_hour_index(hours, hour) == first_hour_index_from(hours, hour, 0)

\* hour_time.strftime("%H:%M") of a time on the hour
hour_text(hour) == (IF hour < 10 THEN "0" ELSE "") \o Str(hour) \o ":00"

\* Lines 240-264: the list hourly_forecast built from index start (from 0):
\* an entry for each i of range(16) before the first whose index start + i
\* is past the end of the series.
hourly_from(hourly, start) ==
    LET rounds == {r \in 0..(HourlyHorizon - 1) :
                      \A q \in 0..r : start + q < Len(hourly)}
    IN  [k \in 1..Cardinality(rounds) |->
            [time |-> hour_text(hourly[start + k].hour),
             rain_probability |-> 10 * hourly[start + k].rain_prob,
             temperature |-> 10 * hourly[start + k].temp,
             wind_speed |-> 10 * hourly[start + k].wind]]

\* The hours datetime.now() is taken at.
ClockHours == {0, 7, 10, 23}

\* Lines 108-124: one round of the loop up to the end of its try statement.
WeatherRequest ==
    /\ w_pc = "request"
    /\ \E outcome \in RequestOutcomes :
          /\ w_log' = Append(w_log, Requested(outcome))
          /\ IF outcome = "ok"
             THEN /\ js' = w_feed
                  /\ w_pc' = "segments"
                  /\ weather' = weather
             ELSE /\ js' = js
                  /\ w_pc' = CASE weather_on_failure(outcome, w_attempt) = "sleep" -> "sleep"
                               [] weather_on_failure(outcome, w_attempt) = "return" -> "done"
                               [] OTHER -> "raised"
                  /\ weather' = IF weather_on_failure(outcome, w_attempt) = "return"
                                THEN get_default_weather ELSE weather
    /\ UNCHANGED <<w_feed, w_attempt, forecast, current_hour, hourly_forecast,
                   busVars, trainVars, fileVars, tubeVars, svcVars, handlerVars>>

\* Line 118: time.sleep(wait_time), then the next round of the loop.
WeatherSleep ==
    /\ w_pc = "sleep"
    /\ w_log' = Append(w_log, Slept(weather_wait_time(w_attempt)))
    /\ w_attempt' = w_attempt + 1
    /\ w_pc' = "request"
    /\ UNCHANGED <<w_feed, js, forecast, current_hour, hourly_forecast, weather,
                   busVars, trainVars, fileVars, tubeVars, svcVars, handlerVars>>

\* Lines 126-179: the segment summaries.
WeatherSegments ==
    /\ w_pc = "segments"
    /\ forecast' = segment_forecast(js.hourly)
    /\ w_pc' = "hourly"
    /\ UNCHANGED <<w_feed, w_attempt, w_log, js, current_hour, hourly_forecast, weather,
                   busVars, trainVars, fileVars, tubeVars, svcVars, handlerVars>>

\* Lines 181-274: the hourly projection from the hour datetime.now() gives,
\* and the returned forecast.
WeatherHourly ==
    /\ w_pc = "hourly"
    /\ \E hour \in ClockHours :
          /\ current_hour' = hour
          /\ hourly_forecast' =
                hourly_from(js.hourly, current_hour_index(Column(js.hourly, "hour"), hour))
    /\ weather' = [high_temp |-> 10 * MaxSeq(Column(js.hourly, "temp")),
                   low_temp |-> 10 * MinSeq(Column(js.hourly, "temp")),
                   segments |-> forecast,
                   sunrise |-> clock_of_iso(js.daily[1].sunrise),
                   sunset |-> clock_of_iso(js.daily[1].sunset),
                   hourly_forecast |-> hourly_forecast']
    /\ w_pc' = "done"
    /\ UNCHANGED <<w_feed, w_attempt, w_log, js, forecast,
                   busVars, trainVars, fileVars, tubeVars, svcVars, handlerVars>>

NextWeather == WeatherRequest \/ WeatherSleep \/ WeatherSegments \/ WeatherHourly

(***************************************************************************)
(* train_departures.py: get_departures from the loop over the services on, *)
(* and get_train_departures over the values it returns.  What xmltodict    *)
(* gives for an element is a text, None (an empty element), a dict (an     *)
(* element with children or attributes) or a list (a repeated element).    *)
(* The fields operator and operatorCode, which get_train_departures does   *)
(* not read, are left out.                                                 *)
(***************************************************************************)
XText(s) == [kind |-> "str", text |-> s]
XNone == [kind |-> "none"]
XDict(fields) == [kind |-> "dict", fields |-> fields]
XList(items) == [kind |-> "list", items |-> items]

\* bool(v)
Truthy(v) ==
    CASE v.kind = "str" -> v.text # ""
      [] v.kind = "none" -> FALSE
      [] v.kind = "dict" -> DOMAIN v.fields # {}
      [] v.kind = "list" -> v.items # <<>>

\* a or b
XOr(a, b) == IF Truthy(a) THEN a ELSE b

\* cur[0] if cur else None, for a list cur; any other cur is left as it is.
first_of_list(cur) ==
    IF cur.kind # "list" THEN cur
    ELSE IF cur.items = <<>> THEN XNone ELSE cur.items[1]

\* cur.get(key) of a dict cur
XGet(cur, key) == IF key \in DOMAIN cur.fields THEN cur.fields[key] ELSE XNone

\* _extract(obj, *keys)
RECURSIVE extract(_, _)
extract(obj, keys) ==
    IF keys = <<>> THEN first_of_list(obj)
    ELSE IF obj.kind = "none" THEN XNone
    ELSE IF first_of_list(obj).kind # "dict" THEN XNone
    ELSE extract(XGet(first_of_list(obj), Head(keys)), Tail(keys))

\* Lines 90-102: std, etd, platform and dest of a service.  No statement of
\* the try block raises for any value of svc, so its except clause is dead.
extract_dest(svc) ==
    LET first == extract(svc, <<"lt5:destination", "lt4:location", "lt4:locationName">>)
        second == XOr(extract(svc, <<"lt5:destination", "lt5:location", "lt4:locationName">>),
                      extract(svc, <<"lt5:destination", "lt4:locationName">>))
    IN  IF first.kind # "none" THEN first
        ELSE IF second.kind # "none" THEN second
        ELSE XText("Unknown")

\* Lines 104-113: the dict appended to results; idx is its position.
extract_service(idx, svc) ==
    [idx |-> idx,
     std |-> XOr(extract(svc, <<"lt4:std">>), XOr(extract(svc, <<"lt5:std">>), XText(""))),
     etd |-> XOr(extract(svc, <<"lt4:etd">>), XOr(extract(svc, <<"lt5:etd">>), XText(""))),
     platform |-> XOr(extract(svc, <<"lt4:platform">>),
                      XOr(extract(svc, <<"lt5:platform">>), XText("-"))),
     destination |-> extract_dest(svc)]

\* _calculate_due_in(std, etd) for values of any type.  Its try block covers
\* the whole body: the AttributeError of strip on an etd that is not a text
\* and the TypeError of strptime on a std that is not a text are caught and
\* "" is returned, which is also what a std of "" gives where std is used.
due_in_of_values(std, etd, now) ==
    IF etd.kind # "str" THEN ""
    ELSE calculate_due_in(IF std.kind = "str" THEN std.text ELSE "", etd.text, now).text

\* Lines 196-206 raise TypeError (unhashable type) outside any try block:
\* likely_platform.get(destination) for a destination that is a dict or a
\* list, and grouped[platform] for such a platform.
normalize_raises(entry) ==
    \/ entry.platform.kind # "str"
    \/ entry.platform.text = "-" /\ entry.destination.kind # "str"

\* Lines 196-203 where they do not raise.
platform_of_values(entry) ==
    IF entry.platform.text # "-" THEN entry.platform.text
    ELSE group_platform([platform |-> "-", destination |-> entry.destination.text])

\* Lines 182-194: the entry with its due-in stored.
normalized_entry(entry, now) ==
    LET text == due_in_of_values(entry.std, entry.etd, now)
    IN  [idx |-> entry.idx, std |-> entry.std, etd |-> entry.etd,
         platform |-> entry.platform, destination |-> entry.destination,
         due_in_mins |-> IF text \in {"", "Due"} THEN None ELSE ParseInt(text),
         due_in_text |-> text]

\* One pass of the loop of get_departures (lines 88-116).
ExtractService ==
    /\ svc_pc = "extract"
    /\ svc_i < Len(services)
    /\ results' = Append(results, extract_service(svc_i + 1, services[svc_i + 1]))
    /\ svc_i' = svc_i + 1
    /\ UNCHANGED <<services, svc_pc, norm_i, norm_grouped, norm_out,
                   trainVars, fileVars, tubeVars, busVars, weatherVars, handlerVars>>

\* return results (line 118), received by raw = get_departures() (line 168)
ReturnResults ==
    /\ svc_pc = "extract"
    /\ svc_i = Len(services)
    /\ svc_pc' = "normalize"
    /\ UNCHANGED <<services, results, svc_i, norm_i, norm_grouped, norm_out,
                   trainVars, fileVars, tubeVars, busVars, weatherVars, handlerVars>>

\* One pass of the loop of get_train_departures (lines 180-206).
NormalizeEntry ==
    /\ svc_pc = "normalize"
    /\ norm_i < Len(results)
    /\ LET entry == results[norm_i + 1]
       IN  IF normalize_raises(entry)
           THEN /\ svc_pc' = "raised"
                /\ UNCHANGED <<norm_i, norm_grouped>>
           ELSE /\ norm_grouped' = dict_append(norm_grouped, platform_of_values(entry),
                                               normalized_entry(entry, clock))
                /\ norm_i' = norm_i + 1
                /\ UNCHANGED svc_pc
    /\ UNCHANGED <<services, results, svc_i, norm_out,
                   trainVars, fileVars, tubeVars, busVars, weatherVars, handlerVars>>

\* Lines 208-216: the sorted mapping is returned.
SortNormalized ==
    /\ svc_pc = "normalize"
    /\ norm_i = Len(results)
    /\ norm_out' = sort_grouped(norm_grouped)
    /\ svc_pc' = "done"
    /\ UNCHANGED <<services, results, svc_i, norm_i, norm_grouped,
                   trainVars, fileVars, tubeVars, busVars, weatherVars, handlerVars>>

NextBatch == ExtractService \/ ReturnResults \/ NormalizeEntry \/ SortNormalized

(***************************************************************************)
(* Inputs and specifications.                                              *)
(***************************************************************************)
MaxRaw == 3
MaxTubes == 3
MaxSamples == 3
MaxArrivals == 3

\* Lists of 0..n elements of S.
RECURSIVE ListsUpTo(_, _)
ListsUpTo(S, n) ==
    IF n = 0 THEN {<<>>}
    ELSE LET shorter == ListsUpTo(S, n - 1)
         IN  shorter \cup {Append(l, x) : l \in {m \in shorter : Len(m) = n - 1}, x \in S}

\* An entry of the list get_departures returns; idx is its position in the
\* list and stands for the identity of the dict object.
Service(std, etd, platform, destination) ==
    [std |-> std, etd |-> etd, platform |-> platform, destination |-> destination]

Numbered(l) ==
    [k \in 1..Len(l) |->
        [idx |-> k, std |-> l[k].std, etd |-> l[k].etd,
         platform |-> l[k].platform, destination |-> l[k].destination]]

At(h, m, sec) == ((h * 60 + m) * SecsPerMin + sec) * TicksPerSec

StdTexts ==
    {"", "00:00", "00:04", "0:4", "00:10", "09:05", "23:58", "23:59", "24:00", "12:60",
     "1205"}

EtdTexts ==
    {"On time", "on time", "ontime", "Delayed", "Due", "", "  ",
     "Cancelled", "CANCELLED", " cancelled\t", "No report", "no Report", "No  report",
     "00:03", "00:12", "23:59", " 00:05", "Delayed: 00:12", "Cancelled:"}

\* Instants around midnight, on either side of the five-minute rollover
\* threshold and of the two-minute "Due" threshold of the texts above.
ClockMinutes ==
    {<<0, 0>>, <<0, 2>>, <<0, 3>>, <<0, 5>>, <<0, 8>>, <<0, 9>>, <<9, 0>>,
     <<23, 53>>, <<23, 57>>, <<23, 58>>, <<23, 59>>}

ClockInstants ==
    {At(hm[1], hm[2], sec) + tick :
        hm \in ClockMinutes, sec \in {0, 30, 59}, tick \in {0, TicksPerSec - 1}}

\* Entries for the grouping: platform labels as the feed gives them (a number,
\* a number with a letter, text, "-" or nothing) and destinations in and out
\* of the table of known destinations.
GroupServices ==
    {Service("00:10", "On time", "-", "Sutton (London)"),
     Service("09:05", "00:12", "", "St Albans Abbey"),
     Service("09:05", "Cancelled", "-", "Luton"),
     Service("23:58", "On time", "2", "Sutton"),
     Service("23:59", "Delayed", "10", "London Victoria"),
     Service("00:04", "On time", "4A", "Orpington"),
     Service("00:04", "On time", "-1", "Bedford")}

TrainsIdle ==
    /\ raw = <<>>
    /\ clock = 0
    /\ i = 0
    /\ pc = "idle"
    /\ use_time = ""
    /\ due_in = ""
    /\ t = None
    /\ grouped = <<>>
    /\ sorted_grouped = <<>>

FileIdle ==
    /\ fi = 0
    /\ fpc = "idle"
    /\ fgrouped = <<>>
    /\ fout = <<>>

TubesIdle ==
    /\ tubes = <<>>
    /\ ti = 0
    /\ tpc = "idle"
    /\ parsed = None
    /\ out = <<>>

BusIdle ==
    /\ bus_feed = <<>>
    /\ bus_limit = 0
    /\ bus_pc = "idle"
    /\ bus_attempt = 0
    /\ bus_log = <<>>
    /\ bus_data = <<>>
    /\ buses = <<>>

WeatherIdle ==
    /\ w_feed = None
    /\ w_pc = "idle"
    /\ w_attempt = 0
    /\ w_log = <<>>
    /\ js = None
    /\ forecast = <<>>
    /\ current_hour = 0
    /\ hourly_forecast = <<>>
    /\ weather = None

SvcIdle ==
    /\ services = <<>>
    /\ results = <<>>
    /\ svc_pc = "idle"
    /\ svc_i = 0
    /\ norm_i = 0
    /\ norm_grouped = <<>>
    /\ norm_out = <<>>

HandlerIdle ==
    /\ cache_file = None
    /\ req_pc = <<>>
    /\ fetched = <<>>
    /\ trains = <<>>
    /\ app_log = <<>>
    /\ page = None

OthersIdle == BusIdle /\ WeatherIdle /\ SvcIdle /\ HandlerIdle

\* get_train_departures starts on the list raw.
TrainsStart(list, now) ==
    /\ raw = list
    /\ clock = now
    /\ i = 0
    /\ pc = "calc"
    /\ use_time = ""
    /\ due_in = ""
    /\ t = None
    /\ grouped = <<>>
    /\ sorted_grouped = <<>>

\* One service, every scheduled text, expected text and instant.
InitDueIn ==
    /\ \E std \in StdTexts, etd \in EtdTexts, now \in ClockInstants :
          TrainsStart(Numbered(<<Service(std, etd, "-", "Luton")>>), now)
    /\ FileIdle
    /\ TubesIdle
    /\ OthersIdle

SpecDueIn == InitDueIn /\ [][NextTrains]_vars

\* A list of services, handed either to get_train_departures (the web page)
\* or to write_departures_to_file (the command-line script).
InitGroup ==
    /\ \E list \in ListsUpTo(GroupServices, MaxRaw) :
          \/ TrainsStart(Numbered(list), At(0, 5, 0)) /\ FileIdle
          \/ /\ raw = Numbered(list)
             /\ clock = At(0, 5, 0)
             /\ i = 0
             /\ pc = "idle"
             /\ use_time = ""
             /\ due_in = ""
             /\ t = None
             /\ grouped = <<>>
             /\ sorted_grouped = <<>>
             /\ fi = 0
             /\ fpc = "group"
             /\ fgrouped = <<>>
             /\ fout = <<>>
    /\ TubesIdle
    /\ OthersIdle

SpecGroup == InitGroup /\ [][NextTrains \/ NextFile]_vars

\* Raw line-status entries: the dicts get_tube_status builds and free text.
StatusDict(line, status, reason) ==
    [kind |-> "dict", text |-> "",
     dict |-> [k \in {"mode", "line", "status", "reason"} |->
                 IF k = "mode" THEN "tube"
                 ELSE IF k = "line" THEN line
                 ELSE IF k = "status" THEN status
                 ELSE reason]]

StatusText(text) ==
    [kind |-> "str", text |-> text, dict |-> [k \in {} |-> ""]]

TubeEntries ==
    {StatusDict("Circle", "Minor Delays", "Circle Line: Minor delays after a major incident"),
     StatusDict("Jubilee", "", "Part closure this weekend"),
     StatusDict("", "", ""),
     StatusText("Bakerloo: Minor Delays"),
     StatusText("Victoria - Good Service"),
     StatusText("Piccadilly" \o EmDash \o "Part Suspended"),
     StatusText("Waterloo & City - Reduced Service: until 21:00"),
     StatusText("Metropolitan"),
     StatusText("DLR : SIGNIFICANT delays ")}

InitTubes ==
    /\ tubes \in ListsUpTo(TubeEntries, MaxTubes)
    /\ ti = 0
    /\ tpc = "parse"
    /\ parsed = None
    /\ out = <<>>
    /\ TrainsIdle
    /\ FileIdle
    /\ OthersIdle

SpecTubes == InitTubes /\ [][NextTubes]_vars

\* Arrivals of the bus feed, not in order of arrival, two of them equally far.
Arrival(line, destination, seconds) ==
    [lineName |-> line, destinationName |-> destination, timeToStation |-> seconds]

BusArrivals ==
    {Arrival("93", "Putney Bridge", 605), Arrival("14", "Russell Square", 59),
     Arrival("430", "Roehampton", 605), Arrival("85", "Kingston", 0)}

BusLimits == {2, 8}

\* Hourly samples: the hours 7, 9, 10 inside the morning, its two ends 6 and
\* 11, with rain probabilities and temperatures whose means are not whole.
Sample(hour, temp, rain_prob, wind) ==
    [hour |-> hour, temp |-> temp, rain_prob |-> rain_prob, wind |-> wind]

HourlySamples ==
    {Sample(7, 11, 10, 12), Sample(9, 12, 20, 15), Sample(10, 14, 30, 8),
     Sample(11, 0 - 3, 55, 21), Sample(6, 9, 0, 3)}

\* A series of a sample per hour from midnight, n samples long.
HourlySeries(n) ==
    [k \in 1..n |-> Sample((k - 1) % 24, 5 + (k % 7), (k * 13) % 101, 10 + (k % 4))]

LongSeriesLengths == {17, 30}

DailySeries == << [sunrise |-> "2025-10-26T06:45", sunset |-> "2025-10-26T16:40"] >>

Forecasts ==
    {[hourly |-> h, daily |-> DailySeries] :
        h \in (ListsUpTo(HourlySamples, MaxSamples) \ {<<>>})
              \cup {HourlySeries(n) : n \in LongSeriesLengths}}

\* One call of get_bus_departures or one call of get_todays_weather.
InitFetch ==
    /\ \/ /\ bus_feed \in ListsUpTo(BusArrivals, MaxArrivals)
          /\ bus_limit \in BusLimits
          /\ bus_pc = "request"
          /\ bus_attempt = 0
          /\ bus_log = <<>>
          /\ bus_data = <<>>
          /\ buses = <<>>
          /\ WeatherIdle
       \/ /\ w_feed \in Forecasts
          /\ w_pc = "request"
          /\ w_attempt = 0
          /\ w_log = <<>>
          /\ js = None
          /\ forecast = <<>>
          /\ current_hour = 0
          /\ hourly_forecast = <<>>
          /\ weather = None
          /\ BusIdle
    /\ TrainsIdle
    /\ FileIdle
    /\ TubesIdle
    /\ SvcIdle
    /\ HandlerIdle

SpecFetch == InitFetch /\ [][NextBus \/ NextWeather]_vars

\* The loops run on: a request gets its answer and a sleep ends.
SpecFetchFair == SpecFetch /\ WF_vars(NextBus) /\ WF_vars(NextWeather)

\* The services of a board.  Location(name) is the element lt5:destination
\* with one lt4:location; ServiceElement gives the four fields as lt4 elements.
Location(name) == XDict("lt4:location" :> XDict("lt4:locationName" :> name))
ServiceElement(std, etd, platform, dest) ==
    XDict(("lt4:std" :> XText(std)) @@ ("lt4:etd" :> XText(etd))
          @@ ("lt4:platform" :> XText(platform)) @@ ("lt5:destination" :> dest))
\* A locationName element that carries an attribute.
NameWithAttribute == XDict("@xml:lang" :> XText("en") @@ "#text" :> XText("Luton"))
Services ==
    { ServiceElement("00:10", "On time", "2", Location(XText("Sutton"))),
      \* no platform, and two locations
      XDict(("lt4:std" :> XText("00:20")) @@ ("lt4:etd" :> XText("00:25"))
            @@ ("lt5:destination" :>
                  XDict("lt4:location" :>
                          XList(<<XDict("lt4:locationName" :> XText("Orpington")),
                                  XDict("lt4:locationName" :> XText("Bedford"))>>)))),
      \* a time no clock shows
      ServiceElement("25:99", "On time", "1", Location(XText("Luton"))),
      \* no keys at all
      XDict(<<>>),
      \* the destination is a text where a location was expected
      ServiceElement("00:30", "On time", "1", XText("Bedford")),
      \* the name of the destination is not a text
      ServiceElement("00:40", "On time", "4", Location(NameWithAttribute)),
      XDict(("lt4:std" :> XText("00:50")) @@ ("lt4:etd" :> XText("On time"))
            @@ ("lt5:destination" :> Location(NameWithAttribute))),
      \* the service is not a dict
      XText("lt4:std") }

MaxServices == 2

\* One call of get_train_departures at midnight.
InitBatch ==
    /\ services \in ListsUpTo(Services, MaxServices)
    /\ results = <<>>
    /\ svc_pc = "extract"
    /\ svc_i = 0
    /\ norm_i = 0
    /\ norm_grouped = <<>>
    /\ norm_out = <<>>
    /\ TrainsIdle
    /\ FileIdle
    /\ TubesIdle
    /\ BusIdle
    /\ WeatherIdle
    /\ HandlerIdle

SpecBatch == InitBatch /\ [][NextBatch]_vars

(***************************************************************************)
(* json: the documents json.dump writes for the cache and json.load reads  *)
(* back.  A JSON value is null, an integer, a text, an array or an object  *)
(* (its members in order).  The texts of a departure hold no quote, no     *)
(* backslash and no character outside ASCII, so none is escaped.           *)
(***************************************************************************)
JNull == [j |-> "null"]
JInt(n) == [j |-> "int", n |-> n]
JStr(s) == [j |-> "str", s |-> s]
JArr(items) == [j |-> "arr", items |-> items]
JObj(members) == [j |-> "obj", members |-> members]
Member(key, value) == [key |-> key, value |-> value]

Quote == "\""

\* json.dumps(v) with the default separators ", " and ": "
RECURSIVE json_dumps(_), dumps_items(_, _), dumps_members(_, _)
json_dumps(v) ==
    CASE v.j = "null" -> "null"
      [] v.j = "int" -> IF v.n < 0 THEN "-" \o Str(0 - v.n) ELSE Str(v.n)
      [] v.j = "str" -> Quote \o v.s \o Quote
      [] v.j = "arr" -> "[" \o dumps_items(v.items, 1) \o "]"
      [] v.j = "obj" -> "{" \o dumps_members(v.members, 1) \o "}"
dumps_items(items, k) ==
    IF k > Len(items) THEN ""
    ELSE json_dumps(items[k]) \o (IF k < Len(items) THEN ", " ELSE "")
         \o dumps_items(items, k + 1)
dumps_members(members, k) ==
    IF k > Len(members) THEN ""
    ELSE Quote \o members[k].key \o Quote \o ": " \o json_dumps(members[k].value)
         \o (IF k < Len(members) THEN ", " ELSE "") \o dumps_members(members, k + 1)

\* The character of s at position p, "" past its end.
CharAt(s, p) == IF p >= 1 /\ p <= Len(s) THEN SubSeq(s, p, p) ELSE ""

\* The first position from p on that holds no space.
RECURSIVE skip_spaces(_, _)
skip_spaces(s, p) == IF CharAt(s, p) = " " THEN skip_spaces(s, p + 1) ELSE p

\* The first position from p on that holds no digit.
RECURSIVE skip_digits(_, _)
skip_digits(s, p) ==
    IF CharAt(s, p) # "" /\ IsDigitChar(CharAt(s, p)) THEN skip_digits(s, p + 1) ELSE p

\* What the decoder gives for the value that starts at a position: the value
\* and the position after it, or ok = FALSE where it raises JSONDecodeError.
Parsed(val, pos) == [ok |-> TRUE, val |-> val, pos |-> pos]
ParseError == [ok |-> FALSE, val |-> JNull, pos |-> 0]

parse_string(s, p) ==
    LET q == IndexFrom(Quote, s, p + 1)
    IN  IF CharAt(s, p) # Quote \/ q = 0 THEN ParseError
        ELSE Parsed(JStr(SubSeq(s, p + 1, q - 1)), q + 1)

parse_number(s, p) ==
    LET negative == CharAt(s, p) = "-"
        start == IF negative THEN p + 1 ELSE p
        end == skip_digits(s, start)
        n == DigitsValue(SubSeq(s, start, end - 1))
    IN  IF end = start THEN ParseError
        ELSE Parsed(JInt(IF negative THEN 0 - n ELSE n), end)

RECURSIVE parse_value(_, _), parse_items(_, _, _), parse_members(_, _, _)
parse_value(s, p) ==
    LET c == CharAt(s, p)
        q == skip_spaces(s, p + 1)
    IN  CASE c = "{" -> IF CharAt(s, q) = "}" THEN Parsed(JObj(<<>>), q + 1)
                        ELSE parse_members(s, q, <<>>)
          [] c = "[" -> IF CharAt(s, q) = "]" THEN Parsed(JArr(<<>>), q + 1)
                        ELSE parse_items(s, q, <<>>)
          [] c = Quote -> parse_string(s, p)
          [] c = "n" -> IF p + 3 <= Len(s) /\ SubSeq(s, p, p + 3) = "null"
                        THEN Parsed(JNull, p + 4) ELSE ParseError
          [] c = "-" \/ (c # "" /\ IsDigitChar(c)) -> parse_number(s, p)
          [] OTHER -> ParseError
\* The items of an array from position p on, those before it being acc.
parse_items(s, p, acc) ==
    LET item == parse_value(s, p)
        q == skip_spaces(s, item.pos)
    IN  IF ~item.ok THEN ParseError
        ELSE IF CharAt(s, q) = "," 
             THEN parse_items(s, skip_spaces(s, q + 1), Append(acc, item.val))
        ELSE IF CharAt(s, q) = "]" THEN Parsed(JArr(Append(acc, item.val)), q + 1)
        ELSE ParseError
\* The members of an object from position p on, those before it being acc.
parse_members(s, p, acc) ==
    LET key == parse_string(s, p)
        colon == skip_spaces(s, key.pos)
        value == parse_value(s, skip_spaces(s, colon + 1))
        q == skip_spaces(s, value.pos)
    IN  IF ~key.ok \/ CharAt(s, colon) # ":" THEN ParseError
        ELSE IF ~value.ok THEN ParseError
        ELSE IF CharAt(s, q) = ","
             THEN parse_members(s, skip_spaces(s, q + 1),
                                Append(acc, Member(key.val.s, value.val)))
        ELSE IF CharAt(s, q) = "}"
             THEN Parsed(JObj(Append(acc, Member(key.val.s, value.val))), q + 1)
        ELSE ParseError

\* json.loads(text): the value, or None where it raises JSONDecodeError (no
\* document, or data after the document).
json_loads(text) ==
    LET doc == parse_value(text, skip_spaces(text, 1))
    IN  IF doc.ok /\ skip_spaces(text, doc.pos) > Len(text) THEN Some(doc.val) ELSE None

\* obj.get(key) of a JSON object: the value of its last member of that key.
HasMember(obj, key) == \E k \in 1..Len(obj.members) : obj.members[k].key = key
MemberOf(obj, key) ==
    obj.members[CHOOSE k \in 1..Len(obj.members) :
                    /\ obj.members[k].key = key
                    /\ \A m \in (k + 1)..Len(obj.members) : obj.members[m].key # key].value

(***************************************************************************)
(* app.py: index, the part that loads the trains (lines 114-140).  Several *)
(* requests may be in the handler at once, each at its own position; the   *)
(* cache file .cache/trains.json is shared by all.  The file is small, so  *)
(* the text json.dump produced reaches it in one write when the with block *)
(* closes it.  Errors of the local disk are left out.                      *)
(***************************************************************************)
restVars == <<trainVars, fileVars, tubeVars, busVars, weatherVars, svcVars>>

\* The boards of a station: the lists get_departures returns.
Boards ==
    { <<>>,
      Numbered(<<Service("00:30", "On time", "1", "Luton")>>),
      Numbered(<<Service("00:10", "On time", "4", "Sutton"),
                 Service("00:20", "00:25", "-", "Orpington")>>) }

\* get_train_departures where the board holds the entries raw and the clock
\* shows now: the grouped departures after n entries, and the value returned.
RECURSIVE grouped_after(_, _, _)
grouped_after(list, n, now) ==
    IF n = 0 THEN <<>>
    ELSE LET entry == store_due_in(list[n], calculate_due_in(list[n].std, list[n].etd, now).text)
         IN  dict_append(grouped_after(list, n - 1, now), group_platform(entry), entry)
get_train_departures(list, now) == sort_grouped(grouped_after(list, Len(list), now))

\* The JSON value of a departure, of the mapping trains and of the dict
\* dumped at line 123.
json_of_entry(entry) ==
    JObj(<<Member("std", JStr(entry.std)), Member("destination", JStr(entry.destination)),
           Member("platform", JStr(entry.platform)), Member("etd", JStr(entry.etd)),
           Member("due_in_mins", IF entry.due_in_mins = None THEN JNull
                                 ELSE JInt(entry.due_in_mins[1])),
           Member("due_in_text", JStr(entry.due_in_text))>>)
json_of_trains(mapping) ==
    JObj([k \in 1..Len(mapping) |->
            Member(mapping[k].platform,
                   JArr([m \in 1..Len(mapping[k].items) |->
                            json_of_entry(mapping[k].items[m])]))])
json_of_blob(fetched_at, mapping) ==
    JObj(<<Member("fetched_at", JStr(fetched_at)), Member("trains", json_of_trains(mapping))>>)

\* The departure and the mapping a JSON value is loaded as.  A loaded dict
\* is a new object: its idx is 0, the position of no entry of a board.
entry_of_json(v) ==
    [idx |-> 0, std |-> MemberOf(v, "std").s, etd |-> MemberOf(v, "etd").s,
     platform |-> MemberOf(v, "platform").s, destination |-> MemberOf(v, "destination").s,
     due_in_mins |-> IF MemberOf(v, "due_in_mins").j = "null" THEN None
                     ELSE Some(MemberOf(v, "due_in_mins").n),
     due_in_text |-> MemberOf(v, "due_in_text").s]
trains_of_json(v) ==
    [k \in 1..Len(v.members) |->
        [platform |-> v.members[k].key,
         items |-> [m \in 1..Len(v.members[k].value.items) |->
                        entry_of_json(v.members[k].value.items[m])]]]

\* datetime.now().isoformat() in the handler of request r.
fetched_at(r) == "2025-01-01T00:00:0" \o Str(r)

\* cache_file.open("w"): the file is created, or cut to no length.
open_without_truncating(file) == IF file = None THEN Some("") ELSE file
open_for_write(file) == Some("")

\* The content of a file after text is written at its start.
written_at_start(content, text) == text \o SubSeq(content, Len(text) + 1, Len(content))

\* Lines 131-138: json.load of the content and blob.get("trains", {}).  Any
\* exception is caught: the JSONDecodeError of json.load and the
\* AttributeError of get on a document that is not an object.  No document
\* this code writes has a trains member that is not an object.
load_cache(content) ==
    LET blob == json_loads(content)
    IN  IF blob = None THEN [ok |-> FALSE, trains |-> <<>>]
        ELSE IF blob[1].j # "obj" THEN [ok |-> FALSE, trains |-> <<>>]
        ELSE IF ~HasMember(blob[1], "trains") THEN [ok |-> TRUE, trains |-> <<>>]
        ELSE [ok |-> TRUE, trains |-> trains_of_json(MemberOf(blob[1], "trains"))]

\* Line 126: except requests.exceptions.RequestException
caught_by_index_timeouts_only(exc) == exc \in {"ReadTimeout", "ConnectTimeout"}
caught_by_index(exc) == exc \in RequestExceptions

\* Line 120: get_train_departures returns a mapping or raises one of the
\* exceptions of the request of get_departures (lines 60-61); an exception
\* index does not catch leaves the handler.
TrainsFetched(r) ==
    /\ req_pc[r] = "idle"
    /\ \E outcome \in RequestOutcomes, board \in Boards :
          /\ outcome # "ok" => board = <<>>
          /\ fetched' = [fetched EXCEPT ![r] =
                            [outcome |-> outcome,
                             trains |-> IF outcome = "ok"
                                        THEN get_train_departures(board, clock) ELSE <<>>]]
          /\ trains' = [trains EXCEPT ![r] =
                            IF outcome = "ok" THEN get_train_departures(board, clock) ELSE <<>>]
          /\ req_pc' = [req_pc EXCEPT ![r] =
                            IF outcome = "ok" THEN "open"
                            ELSE IF caught_by_index(outcome) THEN "except" ELSE "raised"]
          /\ app_log' = [app_log EXCEPT ![r] =
                            IF outcome # "ok" /\ caught_by_index(outcome)
                            THEN Append(@, "Train fetch failed") ELSE @]
    /\ UNCHANGED <<cache_file, page, restVars>>

FetchTrains == \E r \in DOMAIN req_pc : TrainsFetched(r)

\* The same, for a server that handles one request at a time, in turn.
FetchTrainsInTurn ==
    \E r \in DOMAIN req_pc :
        /\ \A q \in DOMAIN req_pc : q < r => req_pc[q] = "buses"
        /\ TrainsFetched(r)

\* Line 122: cache_file.open("w")
OpenCache ==
    \E r \in DOMAIN req_pc :
        /\ req_pc[r] = "open"
        /\ cache_file' = open_for_write(cache_file)
        /\ req_pc' = [req_pc EXCEPT ![r] = "dump"]
        /\ UNCHANGED <<fetched, trains, app_log, page, restVars>>

\* Line 123 and the end of the with block: json.dump, and the text reaches
\* the file from the start on.
DumpCache ==
    \E r \in DOMAIN req_pc :
        /\ req_pc[r] = "dump"
        /\ cache_file' = Some(written_at_start(cache_file[1],
                                json_dumps(json_of_blob(fetched_at(r), fetched[r].trains))))
        /\ req_pc' = [req_pc EXCEPT ![r] = "buses"]
        /\ UNCHANGED <<fetched, trains, app_log, page, restVars>>

\* Lines 129 and 139-140: cache_file.exists()
CacheExists ==
    \E r \in DOMAIN req_pc :
        /\ req_pc[r] = "except"
        /\ IF cache_file = None
           THEN /\ trains' = [trains EXCEPT ![r] = <<>>]
                /\ req_pc' = [req_pc EXCEPT ![r] = "buses"]
           ELSE /\ req_pc' = [req_pc EXCEPT ![r] = "load"]
                /\ UNCHANGED trains
        /\ UNCHANGED <<cache_file, fetched, app_log, page, restVars>>

\* Lines 130-138: the cache is read.
LoadCache ==
    \E r \in DOMAIN req_pc :
        /\ req_pc[r] = "load"
        /\ LET loaded == load_cache(cache_file[1])
           IN  /\ trains' = [trains EXCEPT ![r] = loaded.trains]
               /\ app_log' = [app_log EXCEPT ![r] =
                                Append(@, IF loaded.ok THEN "Loaded cached train platforms"
                                          ELSE "Failed to read trains cache")]
        /\ req_pc' = [req_pc EXCEPT ![r] = "buses"]
        /\ UNCHANGED <<cache_file, fetched, page, restVars>>

NextCacheInTurn == FetchTrainsInTurn \/ OpenCache \/ DumpCache \/ CacheExists \/ LoadCache

NextCache == FetchTrains \/ OpenCache \/ DumpCache \/ CacheExists \/ LoadCache

MaxRequests == 3
MaxOverlap == 2

\* No request has arrived; n requests are to come.
RequestsToCome(n) ==
    /\ req_pc = [r \in 1..n |-> "idle"]
    /\ fetched = [r \in 1..n |-> [outcome |-> "", trains |-> <<>>]]
    /\ trains = [r \in 1..n |-> <<>>]
    /\ app_log = [r \in 1..n |-> <<>>]
    /\ page = None
    /\ TrainsIdle
    /\ FileIdle
    /\ TubesIdle
    /\ BusIdle
    /\ WeatherIdle
    /\ SvcIdle

\* A server started with no cache file that handles one request at a time.
InitCacheInTurn ==
    /\ cache_file = None
    /\ RequestsToCome(MaxRequests)

SpecCacheInTurn == InitCacheInTurn /\ [][NextCacheInTurn]_vars

\* A threaded server: the requests overlap in any way.  The cache file
\* holds what an earlier request (request 0) wrote.
InitCache ==
    /\ cache_file \in
          {Some(json_dumps(json_of_blob(fetched_at(0), get_train_departures(board, 0)))) :
              board \in Boards}
    /\ RequestsToCome(MaxOverlap)

SpecCache == InitCache /\ [][NextCache]_vars

(***************************************************************************)
(* tube_status.py: get_tube_status, and app.py: index from the buses on    *)
(* (lines 141-182), for one request at a time.  The calls index makes run  *)
(* as the steps modelled above: get_bus_departures, _normalize_tubes and   *)
(* get_todays_weather.  Of the context given to render_template the texts  *)
(* of the clock and the station code are left out.                         *)
(***************************************************************************)
\* A line of the payload of the status feed: its name, None where the key
\* is missing, and its lineStatuses, each a dict.
TubeLine(name, statuses) == [name |-> name, lineStatuses |-> statuses]

\* Lines 32-47 of get_tube_status: the statuses of the lines that have one,
\* or the KeyError of line["name"].
get_tube_status(data) ==
    LET WithStatus(line) == line.lineStatuses # <<>>
        listed == SelectSeq(data, WithStatus)
    IN  IF \E k \in 1..Len(data) : data[k].name = None
        THEN [raised |-> TRUE, statuses |-> <<>>]
        ELSE [raised |-> FALSE,
              statuses |->
                [k \in 1..Len(listed) |->
                    StatusDict(listed[k].name[1],
                               TextOf(OrElse(DictGet(listed[k].lineStatuses[1],
                                                     "statusSeverityDescription"),
                                             Some("Unknown"))),
                               TextOf(DictGet(listed[k].lineStatuses[1], "reason")))]]

TubePayloads ==
    { << TubeLine(Some("Circle"),
                  << ("statusSeverityDescription" :> "Minor Delays")
                       @@ ("reason" :> "Circle Line: signal failure") >>),
         TubeLine(Some("Victoria"), << ("statusSeverityDescription" :> "Good Service") >>),
         TubeLine(Some("Jubilee"), <<>>) >>,
      << TubeLine(None, << ("statusSeverityDescription" :> "Good Service") >>) >> }

BusStops == {"", "490008660N"}
PageBusFeeds == { <<Arrival("93", "Putney Bridge", 605), Arrival("14", "Russell Square", 59)>> }
PageForecasts == { [hourly |-> HourlySeries(17), daily |-> DailySeries] }

\* Lines 156-165: the lines with an issue, those without, and what is said
\* and shown of the latter.
tube_issues(normalized) ==
    LET HasIssue(rec) == rec.severity # "good" IN SelectSeq(normalized, HasIssue)
tube_good(normalized) ==
    LET IsGood(rec) == rec.severity = "good" IN SelectSeq(normalized, IsGood)
tube_good_summary(issues, good) ==
    IF issues # <<>>
    THEN IF good # <<>>
         THEN "Good service on all other line" \o (IF Len(good) # 1 THEN "s" ELSE "") \o "."
         ELSE ""
    ELSE IF good # <<>> THEN "Good service on all lines." ELSE ""
tube_good_colours(good) ==
    [k \in 1..(IF Len(good) < 12 THEN Len(good) ELSE 12) |-> good[k].color]

\* Lines 170-182: the context of render_template.
page_context(r) ==
    [trains |-> trains[r],
     buses |-> buses,
     tubes |-> tube_issues(out),
     weather |-> weather,
     tube_has_data |-> out # <<>>,
     tube_good_summary |-> tube_good_summary(tube_issues(out), tube_good(out)),
     tube_good_colours |-> tube_good_colours(tube_good(out))]

\* Lines 142-143: get_bus_departures is called where a stop is configured.
CallBuses ==
    \E r \in DOMAIN req_pc :
        /\ req_pc[r] = "buses"
        /\ \E bus_stop \in BusStops, feed \in PageBusFeeds :
              IF bus_stop = ""
              THEN /\ buses' = <<>>
                   /\ req_pc' = [req_pc EXCEPT ![r] = "tubes"]
                   /\ UNCHANGED <<bus_feed, bus_limit, bus_pc, bus_attempt, bus_log, bus_data>>
              ELSE /\ bus_feed' = feed
                   /\ bus_limit' = 8
                   /\ bus_pc' = "request"
                   /\ bus_attempt' = 0
                   /\ bus_log' = <<>>
                   /\ bus_data' = <<>>
                   /\ buses' = <<>>
                   /\ req_pc' = [req_pc EXCEPT ![r] = "buses_called"]
        /\ UNCHANGED <<cache_file, fetched, trains, app_log, page,
                       trainVars, fileVars, tubeVars, weatherVars, svcVars>>

\* Lines 143-146: the call is over; an exception of it gives no buses.
ReturnBuses ==
    \E r \in DOMAIN req_pc :
        /\ req_pc[r] = "buses_called"
        /\ bus_pc \in {"done", "raised"}
        /\ buses' = IF bus_pc = "raised" THEN <<>> ELSE buses
        /\ app_log' = [app_log EXCEPT ![r] =
                          IF bus_pc = "raised" THEN Append(@, "Bus fetch failed") ELSE @]
        /\ req_pc' = [req_pc EXCEPT ![r] = "tubes"]
        /\ UNCHANGED <<bus_feed, bus_limit, bus_pc, bus_attempt, bus_log, bus_data,
                       cache_file, fetched, trains, page,
                       trainVars, fileVars, tubeVars, weatherVars, svcVars>>

\* Lines 149-155: get_tube_status, any exception of which gives no
\* statuses, and the call of _normalize_tubes.
FetchTubes ==
    \E r \in DOMAIN req_pc :
        /\ req_pc[r] = "tubes"
        /\ \E outcome \in RequestOutcomes, payload \in TubePayloads :
              LET failed == outcome # "ok" \/ get_tube_status(payload).raised
              IN  /\ tubes' = IF failed THEN <<>> ELSE get_tube_status(payload).statuses
                  /\ app_log' = [app_log EXCEPT ![r] =
                                    IF failed THEN Append(@, "Tube status fetch failed") ELSE @]
        /\ ti' = 0
        /\ tpc' = "parse"
        /\ parsed' = None
        /\ out' = <<>>
        /\ req_pc' = [req_pc EXCEPT ![r] = "normalize"]
        /\ UNCHANGED <<cache_file, fetched, trains, page,
                       trainVars, fileVars, busVars, weatherVars, svcVars>>

\* Line 166: get_todays_weather is called, once _normalize_tubes is over.
CallWeather ==
    \E r \in DOMAIN req_pc :
        /\ req_pc[r] = "normalize"
        /\ tpc = "done"
        /\ w_feed' \in PageForecasts
        /\ w_pc' = "request"
        /\ w_attempt' = 0
        /\ w_log' = <<>>
        /\ js' = None
        /\ forecast' = <<>>
        /\ current_hour' = 0
        /\ hourly_forecast' = <<>>
        /\ weather' = None
        /\ req_pc' = [req_pc EXCEPT ![r] = "weather"]
        /\ UNCHANGED <<cache_file, fetched, trains, app_log, page,
                       trainVars, fileVars, tubeVars, busVars, svcVars>>

\* Lines 166-182: the call is over; an exception of it leaves the handler,
\* else the page is rendered.
Render ==
    \E r \in DOMAIN req_pc :
        /\ req_pc[r] = "weather"
        /\ w_pc \in {"done", "raised"}
        /\ IF w_pc = "raised"
           THEN /\ req_pc' = [req_pc EXCEPT ![r] = "raised"]
                /\ UNCHANGED page
           ELSE /\ req_pc' = [req_pc EXCEPT ![r] = "done"]
                /\ page' = Some(page_context(r))
        /\ UNCHANGED <<cache_file, fetched, trains, app_log, restVars>>

NextPage ==
    \/ NextCacheInTurn
    \/ CallBuses \/ NextBus \/ ReturnBuses
    \/ FetchTubes \/ NextTubes
    \/ CallWeather \/ NextWeather
    \/ Render

\* One request to a server whose cache file is absent or holds what an
\* earlier request (request 0) wrote of the board EarlierBoard.
EarlierBoard == Numbered(<<Service("00:30", "On time", "1", "Luton")>>)

InitPage ==
    /\ cache_file \in
          {None, Some(json_dumps(json_of_blob(fetched_at(0),
                                              get_train_departures(EarlierBoard, 0))))}
    /\ RequestsToCome(1)

SpecPage == InitPage /\ [][NextPage]_vars

(***************************************************************************)
(* Properties of the due-in computation, under SpecDueIn.                  *)
(***************************************************************************)
\* The entry the loop is at, once _calculate_due_in has returned for it.
DueInReturned == pc \in {"store", "group"}
Cur == raw[i + 1]
DueText == IF pc = "group" THEN t.due_in_text ELSE due_in

IsCancelledText(text) == Lower(Strip(text)) \in {"cancelled", "no report"}

\* A due-in was computed: the reference text use_time reads as a clock time.
DueInComputed ==
    /\ DueInReturned
    /\ ~IsCancelledText(Cur.etd)
    /\ Strptime(use_time) # None

\* The reference clock time on today's date, and how far in the past it lies.
RefToday == Strptime(use_time)[1] * TicksPerMin
PastToday == clock - RefToday
FiveMinutes == 5 * 60 * TicksPerSec
RefInstant == IF PastToday > FiveMinutes THEN RefToday + TicksPerDay ELSE RefToday
Delta == (RefInstant - clock) \div TicksPerMin

C2_CancelledIsEmpty ==
    (DueInReturned /\ IsCancelledText(Cur.etd)) =>
        /\ due_in = ""
        /\ pc = "group" => (t.due_in_text = "" /\ t.due_in_mins = None)

C2_Witness ==
    /\ pc = "group"
    /\ Cur.etd = "CANCELLED"
    /\ Strptime(Cur.std) # None
    /\ t.due_in_text = ""
    /\ t.due_in_mins = None

DueRender(minutes) == IF minutes <= 1 THEN "Due" ELSE ToString(minutes)

\* C3: a reference clock time that on today's date lies more than five
\* minutes in the past is taken on the next day, which is ahead of now;
\* otherwise it is taken on today's date.
C3_MidnightRollover ==
    DueInComputed =>
        IF PastToday > FiveMinutes
        THEN /\ RefToday + TicksPerDay > clock
             /\ DueText = DueRender((RefToday + TicksPerDay - clock) \div TicksPerMin)
        ELSE DueText = DueRender((RefToday - clock) \div TicksPerMin)

C3_Witness ==
    /\ pc = "store"
    /\ DueInComputed
    /\ PastToday > FiveMinutes
    /\ PastToday > 23 * 60 * TicksPerMin
    /\ due_in = ToString((RefToday + TicksPerDay - clock) \div TicksPerMin)

HasColon(text) == \E k \in 1..Len(text) : Char(text, k) = ":"
IsSentinelText(text) == Lower(Strip(text)) \in {"on time", "due", "delayed", ""}

\* C4: unless the expected time is cancelled / no report, the reference is
\* the expected time exactly when that contains a colon and is no sentinel,
\* and the scheduled time otherwise; an empty reference gives an empty due-in.
C4_ReferenceChoice ==
    (DueInReturned /\ ~IsCancelledText(Cur.etd)) =>
        /\ use_time = IF HasColon(Cur.etd) /\ ~IsSentinelText(Cur.etd)
                      THEN Cur.etd ELSE Cur.std
        /\ use_time = "" => DueText = ""

C4_Witness ==
    /\ pc = "store"
    /\ Cur.etd = "00:12"
    /\ Cur.std = "00:04"
    /\ use_time = "00:12"
    /\ due_in \notin {"", "Due"}

ExactEntries(destination) ==
    {k \in 1..Len(likely_platform) : likely_platform[k][1] = destination}
PrefixEntries(destination) ==
    {k \in 1..Len(likely_platform) :
        /\ Len(likely_platform[k][1]) <= Len(destination)
        /\ \A c \in 1..Len(likely_platform[k][1]) :
              Char(destination, c) = Char(likely_platform[k][1], c)}
InferredPlatform(destination) ==
    IF ExactEntries(destination) # {}
    THEN likely_platform[CHOOSE k \in ExactEntries(destination) : TRUE][2]
    ELSE IF PrefixEntries(destination) # {}
    THEN likely_platform[CHOOSE k \in PrefixEntries(destination) :
                            \A o \in PrefixEntries(destination) : k <= o][2]
    ELSE "-"

PlatformExpected(item) ==
    IF item.platform \in {"", "-"} THEN InferredPlatform(item.destination)
    ELSE item.platform

UnderExpectedPlatform(d) ==
    \A g \in 1..Len(d) : \A j \in 1..Len(d[g].items) :
        d[g].platform = PlatformExpected(d[g].items[j])

\* C5: an entry without a platform (missing or "-") is grouped under the
\* platform of the table entry equal to its destination, else of the first
\* table entry its destination starts with, else under "-"; an entry with a
\* real platform is grouped under that platform.
C5_PlatformInference ==
    /\ UnderExpectedPlatform(grouped)
    /\ UnderExpectedPlatform(sorted_grouped)

C5_Witness ==
    /\ pc = "done"
    /\ \E g \in 1..Len(sorted_grouped) :
          /\ sorted_grouped[g].platform = "4"
          /\ \E j \in 1..Len(sorted_grouped[g].items) :
                /\ sorted_grouped[g].items[j].platform = "-"
                /\ sorted_grouped[g].items[j].destination = "Sutton (London)"
    /\ \E g \in 1..Len(sorted_grouped) :
          /\ sorted_grouped[g].platform = "1"
          /\ sorted_grouped[g].items[1].destination = "St Albans Abbey"
    /\ \E g \in 1..Len(sorted_grouped) :
          /\ sorted_grouped[g].platform = "2"
          /\ sorted_grouped[g].items[1].destination = "Sutton"

\* A label parses as an integer when int() accepts it.
ParsesAsInteger(label) == ParseInt(label) # None

InClaimedOrder(first, second) ==
    IF ParsesAsInteger(first)
    THEN ParsesAsInteger(second) => ParseInt(first)[1] <= ParseInt(second)[1]
    ELSE ~ParsesAsInteger(second) /\ ~StrLess(second, first)

LabelsInClaimedOrder(d) ==
    \A a, b \in 1..Len(d) : a < b => InClaimedOrder(d[a].platform, d[b].platform)

Labels(d) == [k \in 1..Len(d) |-> d[k].platform]

\* C6: in the grouped output the labels that parse as integers come first,
\* in ascending numeric order, and the other labels follow in
\* lexicographic order; this for the mapping get_train_departures returns
\* and for the sections write_departures_to_file writes.
C6_PlatformOrder ==
    /\ pc = "done" => LabelsInClaimedOrder(sorted_grouped)
    /\ fpc = "done" => LabelsInClaimedOrder(fout)

\* The part of C6 that get_train_departures keeps.
C6_TrainPlatformOrder == pc = "done" => LabelsInClaimedOrder(sorted_grouped)

\* Each record of the list is in exactly one group, as it was in the list
\* (the fields in fields), and each group is in the order of the list.
Conserved(d, fields) ==
    /\ \A k \in 1..Len(raw) :
          Cardinality({<<g, j>> \in (1..Len(d)) \X (1..Len(raw)) :
                          j <= Len(d[g].items) /\ d[g].items[j].idx = k}) = 1
    /\ \A g \in 1..Len(d) :
          /\ Len(d[g].items) <= Len(raw)
          /\ \A j \in 1..Len(d[g].items) :
                /\ d[g].items[j].idx \in 1..Len(raw)
                /\ \A f \in fields : d[g].items[j][f] = raw[d[g].items[j].idx][f]
          /\ \A a, b \in 1..Len(d[g].items) :
                a < b => d[g].items[a].idx < d[g].items[b].idx
    /\ \A g, h \in 1..Len(d) : g # h => d[g].platform # d[h].platform

ServiceFields == {"std", "etd", "platform", "destination"}

\* C7: every record of the input list is in exactly one platform group of
\* the output, none dropped and none duplicated, and each group keeps the
\* order of the input list.
C7_GroupingConserves ==
    /\ pc = "done" => Conserved(sorted_grouped, ServiceFields)
    /\ fpc = "done" => Conserved(fout, ServiceFields)

C7_Witness ==
    /\ pc = "done"
    /\ Len(raw) = 3
    /\ Len(sorted_grouped) = 2
    /\ Len(sorted_grouped[2].items) = 2
    /\ sorted_grouped[2].items[1].idx = 1
    /\ sorted_grouped[2].items[2].idx = 3
    /\ Conserved(sorted_grouped, ServiceFields)

(***************************************************************************)
(* Properties of the line-status normalizer, under SpecTubes.              *)
(***************************************************************************)
\* The record of entry ti has just been appended; parsed still holds the
\* locals name, status and reason of that entry.
JustAppended == tpc = "parse" /\ ti >= 1 /\ Len(out) = ti

OccursAt(text, word, k) ==
    /\ k + Len(word) - 1 <= Len(text)
    /\ SubSeq(text, k, k + Len(word) - 1) = word
HasWord(text, words) ==
    LET low == Lower(text)
    IN  \E w \in words : \E k \in 1..Len(low) : OccursAt(low, w, k)

MajorKeywords == {"major", "severe", "significant"}
WarnKeywords == {"minor", "part", "planned", "closure", "reduced"}

KeywordSeverity(text) ==
    IF HasWord(text, MajorKeywords) THEN "major"
    ELSE IF HasWord(text, WarnKeywords) THEN "warn"
    ELSE "good"

\* C8 as stated: the severity is major when a major keyword occurs in the
\* status or in the reason, else warn when a warn keyword occurs in the
\* status or in the reason, else good.
C8_KeywordsInStatusOrReason ==
    JustAppended =>
        out[ti].severity =
            IF \/ HasWord(TextOf(parsed.status), MajorKeywords)
               \/ HasWord(TextOf(parsed.reason), MajorKeywords) THEN "major"
            ELSE IF \/ HasWord(TextOf(parsed.status), WarnKeywords)
                    \/ HasWord(TextOf(parsed.reason), WarnKeywords) THEN "warn"
            ELSE "good"

\* C8, amended: the severity is decided by the keywords of one text, case
\* ignored: the status, and the reason only when the status is missing or
\* empty.
C8_KeywordsInStatusElseReason ==
    JustAppended =>
        out[ti].severity =
            KeywordSeverity(IF TextOf(parsed.status) # "" THEN TextOf(parsed.status)
                            ELSE TextOf(parsed.reason))

C8_Witness ==
    /\ JustAppended
    /\ tubes[ti].kind = "dict"
    /\ tubes[ti].dict["status"] = "Minor Delays"
    /\ HasWord(tubes[ti].dict["reason"], MajorKeywords)
    /\ out[ti].severity = "warn"

Tier(record) ==
    CASE record.severity = "major" -> 1
      [] record.severity = "warn" -> 2
      [] record.severity = "good" -> 3

\* C9: the normalized list is ordered major, warn, good; records of equal
\* severity keep their input order; sorting the sorted list by severity
\* again gives the same list.
C9_StatusOrdering ==
    tpc = "done" =>
        /\ \A a, b \in 1..Len(out) : a < b =>
              /\ Tier(out[a]) <= Tier(out[b])
              /\ Tier(out[a]) = Tier(out[b]) => out[a].idx < out[b].idx
        /\ sort_out(out) = out

C9_Witness ==
    /\ tpc = "done"
    /\ Len(out) = 3
    /\ out[1].idx = 2
    /\ out[2].idx = 3
    /\ out[3].idx = 1
    /\ out[1].severity = "warn"
    /\ out[2].severity = "warn"
    /\ out[3].severity = "good"

\* The delimiter a free-text entry is split on: the first kind present of
\* colon, " - ", em-dash; "" when none is.
HasText(text, part) == \E k \in 1..Len(text) : OccursAt(text, part, k)
ClaimedDelimiter(text) ==
    IF HasText(text, ":") THEN ":"
    ELSE IF HasText(text, " - ") THEN " - "
    ELSE IF HasText(text, EmDash) THEN EmDash
    ELSE ""
FirstAt(text, part) ==
    CHOOSE k \in 1..Len(text) :
        OccursAt(text, part, k) /\ \A j \in 1..(k - 1) : ~OccursAt(text, part, j)
ClaimedName(text) ==
    IF ClaimedDelimiter(text) = "" THEN text
    ELSE Strip(SubSeq(text, 1, FirstAt(text, ClaimedDelimiter(text)) - 1))
ClaimedStatus(text) ==
    IF ClaimedDelimiter(text) = "" THEN ""
    ELSE Strip(SubSeq(text,
                      FirstAt(text, ClaimedDelimiter(text)) + Len(ClaimedDelimiter(text)),
                      Len(text)))

FreeTextAppended == JustAppended /\ tubes[ti].kind = "str"

SplitExamples ==
    /\ tubes[ti].text = "Bakerloo: Minor Delays" =>
          /\ out[ti].name = "Bakerloo"
          /\ out[ti].status = "Minor Delays"
          /\ out[ti].severity = "warn"
    /\ tubes[ti].text = "Victoria - Good Service" =>
          /\ out[ti].name = "Victoria"
          /\ out[ti].severity = "good"

\* C10 as stated: the normalized record of a free-text entry has the
\* trimmed name and status of the split on the first delimiter kind
\* present (colon, then " - ", then em-dash), and without a delimiter the
\* whole string as its name and an empty status.
C10_SplitInRecord ==
    FreeTextAppended =>
        /\ out[ti].name = ClaimedName(tubes[ti].text)
        /\ out[ti].status = ClaimedStatus(tubes[ti].text)
        /\ SplitExamples

ShownAs(text) == IF text = "" THEN "Unknown" ELSE text

\* C10, amended: the split gives the trimmed name and status, without a
\* delimiter the whole string and an empty status; the normalized record
\* shows them, with "Unknown" in place of an empty name or status.
C10_SplitThenUnknown ==
    FreeTextAppended =>
        /\ parsed.name = Some(ClaimedName(tubes[ti].text))
        /\ parsed.status = Some(ClaimedStatus(tubes[ti].text))
        /\ out[ti].name = ShownAs(ClaimedName(tubes[ti].text))
        /\ out[ti].status = ShownAs(ClaimedStatus(tubes[ti].text))
        /\ SplitExamples

C10_Witness ==
    /\ FreeTextAppended
    /\ tubes[ti].text = "Waterloo & City - Reduced Service: until 21:00"
    /\ out[ti].name = "Waterloo & City - Reduced Service"
    /\ out[ti].status = "until 21:00"
    /\ ti >= 2
    /\ tubes[ti - 1].text = "Metropolitan"
    /\ out[ti - 1].name = "Metropolitan"
    /\ out[ti - 1].status = "Unknown"

(***************************************************************************)
(* Properties of the bus and weather fetches, under SpecFetch and          *)
(* SpecFetchFair.                                                          *)
(***************************************************************************)
IsRequest(entry) == entry.ev = "request"
IsSleep(entry) == entry.ev = "sleep"
RequestsIn(log) == {k \in 1..Len(log) : IsRequest(log[k])}
SleepsIn(log) == {k \in 1..Len(log) : IsSleep(log[k])}
LastIsSuccess(log) == log # <<>> /\ log[Len(log)] = Requested("ok")

\* The retry protocol as far as the log of a call shows it; ended says the
\* call has returned and fallback that it returned its fallback value.
RetryProtocol(log, ended, fallback) ==
    /\ Cardinality(RequestsIn(log)) <= 3
    /\ \A k \in RequestsIn(log) : k > 1 =>
          /\ IsSleep(log[k - 1])
          /\ k > 2 /\ log[k - 2] = Requested("ReadTimeout")
    /\ \A k \in SleepsIn(log) :
          /\ k > 1 /\ log[k - 1] = Requested("ReadTimeout")
          /\ log[k].wait = IF Cardinality({j \in SleepsIn(log) : j < k}) = 0 THEN 1 ELSE 2
    /\ \A k \in RequestsIn(log) :
          log[k].outcome \notin {"ok", "ReadTimeout"} =>
              k = Len(log) /\ ended /\ fallback
    /\ Cardinality({k \in RequestsIn(log) : log[k] = Requested("ReadTimeout")}) = 3 =>
          Len(log) = 5 /\ ended /\ fallback

BusFallback == buses = <<>>
WeatherFallback == w_pc = "done" /\ weather = get_default_weather

RetryProtocolKept ==
    /\ RetryProtocol(bus_log, bus_pc = "done", BusFallback)
    /\ RetryProtocol(w_log, w_pc = "done", WeatherFallback)
    /\ bus_pc = "process" => LastIsSuccess(bus_log)
    /\ bus_pc = "done" /\ ~LastIsSuccess(bus_log) => BusFallback /\ bus_data = <<>>
    /\ w_pc \in {"segments", "hourly"} => LastIsSuccess(w_log)
    /\ w_pc = "done" /\ ~LastIsSuccess(w_log) =>
          WeatherFallback /\ forecast = <<>> /\ hourly_forecast = <<>>
    /\ bus_pc # "raised" /\ w_pc # "raised"

CallsEnded == bus_pc \in {"idle", "done"} /\ w_pc \in {"idle", "done"}

ConsumerFields == {"segments", "high_temp", "low_temp", "sunrise", "sunset"}

\* C15: whatever the outcome of the fetch, the returned forecast has the
\* fields segments, high_temp, low_temp, sunrise and sunset; after a failed
\* fetch the segmenter has not run and the default object is returned.
C15_SameStructure ==
    w_pc = "done" =>
        /\ ConsumerFields \subseteq DOMAIN weather
        /\ ~LastIsSuccess(w_log) => forecast = <<>> /\ weather = get_default_weather

\* The samples of the series whose hour lies in [start, end).
InDayPart(series, start, end) ==
    {k \in 1..Len(series) : start <= series[k].hour /\ series[k].hour < end}

RECURSIVE TotalOver(_, _, _)
TotalOver(S, series, field) ==
    IF S = {} THEN 0
    ELSE LET k == CHOOSE x \in S : TRUE
         IN  series[k][field] + TotalOver(S \ {k}, series, field)

Distance(a, b) == IF a >= b THEN a - b ELSE b - a

\* m tenths is the mean total / n rounded to one decimal.
IsMeanInTenths(m, total, n) ==
    /\ 2 * Distance(10 * total, m * n) <= n
    /\ 2 * Distance(10 * total, m * n) = n => m % 2 = 0

MorningExample == <<Sample(7, 11, 10, 12), Sample(9, 12, 20, 15), Sample(10, 14, 30, 8)>>

\* C17: each averaged field of a day-part is the mean (to one decimal) of
\* exactly the samples whose hour h has start <= h < end; rain
\* probabilities 10, 20, 30 at the hours 7, 9, 10 give the morning 20.0; a
\* day-part without a sample has temp None and the other fields 0.
C17_SegmentAveraging ==
    w_pc \in {"hourly", "done"} /\ LastIsSuccess(w_log) =>
        /\ \A k \in 1..4 :
              LET S == InDayPart(js.hourly, segments[k].start, segments[k].end)
                  n == Cardinality(S)
              IN  IF S = {}
                  THEN /\ forecast[k].temp = None
                       /\ forecast[k].rain_probability = 0
                       /\ forecast[k].wind_speed = 0
                  ELSE /\ forecast[k].temp # None
                       /\ IsMeanInTenths(forecast[k].temp[1], TotalOver(S, js.hourly, "temp"), n)
                       /\ IsMeanInTenths(forecast[k].rain_probability,
                                         TotalOver(S, js.hourly, "rain_prob"), n)
                       /\ IsMeanInTenths(forecast[k].wind_speed,
                                         TotalOver(S, js.hourly, "wind"), n)
        /\ js.hourly = MorningExample =>
              forecast[1].label = "morning" /\ forecast[1].rain_probability = 200

C17_Witness ==
    /\ w_pc = "done"
    /\ LastIsSuccess(w_log)
    /\ js.hourly = <<Sample(6, 9, 0, 3), Sample(7, 11, 10, 12), Sample(11, 0 - 3, 55, 21)>>
    /\ forecast[1].rain_probability = 50
    /\ forecast[1].temp = Some(100)
    /\ forecast[2].temp = Some(0 - 30)
    /\ forecast[3].temp = None

HourTextOf(hour) == IF hour < 10 THEN "0" \o ToString(hour) \o ":00" ELSE ToString(hour) \o ":00"

\* C18: the hourly projection starts at the first sample whose hour is the
\* current hour (index 0 when there is none), holds consecutive samples in
\* series order, and has min(16, samples from the start index on) entries.
C18_RollingHourly ==
    w_pc = "done" /\ LastIsSuccess(w_log) =>
        LET series == js.hourly
            matches == {k \in 1..Len(series) : series[k].hour = current_hour}
            first == IF matches = {} THEN 1
                     ELSE CHOOSE k \in matches : \A j \in matches : k <= j
            left == Len(series) - first + 1
            count == IF left < 16 THEN left ELSE 16
        IN  /\ Len(hourly_forecast) = count
            /\ weather.hourly_forecast = hourly_forecast
            /\ \A k \in 1..Len(hourly_forecast) :
                  /\ first + k - 1 <= Len(series)
                  /\ hourly_forecast[k].time = HourTextOf(series[first + k - 1].hour)
                  /\ hourly_forecast[k].temperature = 10 * series[first + k - 1].temp
                  /\ hourly_forecast[k].rain_probability = 10 * series[first + k - 1].rain_prob
                  /\ hourly_forecast[k].wind_speed = 10 * series[first + k - 1].wind

C18_Witness ==
    /\ w_pc = "done"
    /\ LastIsSuccess(w_log)
    /\ Len(js.hourly) = 30
    /\ current_hour = 10
    /\ Len(hourly_forecast) = 16
    /\ hourly_forecast[1].time = "10:00"
    /\ hourly_forecast[15].time = "00:00"
    /\ hourly_forecast[16].time = "01:00"

(***************************************************************************)
(* Properties of get_train_departures over the services of a board, under  *)
(* SpecBatch.                                                              *)
(***************************************************************************)
IsText(v) == v.kind = "str"

\* The element of a service under the key named lt4 or lt5.
ElementOf(svc, name) ==
    IF svc.kind # "dict" THEN XNone
    ELSE IF ("lt4:" \o name) \in DOMAIN svc.fields THEN svc.fields["lt4:" \o name]
    ELSE IF ("lt5:" \o name) \in DOMAIN svc.fields THEN svc.fields["lt5:" \o name]
    ELSE XNone

\* The first location of a destination element.
LocationOf(dest) ==
    IF dest.kind # "dict" THEN XNone
    ELSE IF "lt4:location" \notin DOMAIN dest.fields THEN XNone
    ELSE IF dest.fields["lt4:location"].kind = "list"
         THEN (IF dest.fields["lt4:location"].items = <<>> THEN XNone
               ELSE dest.fields["lt4:location"].items[1])
    ELSE dest.fields["lt4:location"]

\* The name of the first location of a service.
NameOf(svc) ==
    LET location == LocationOf(ElementOf(svc, "destination"))
    IN  IF location.kind # "dict" THEN XNone
        ELSE IF "lt4:locationName" \notin DOMAIN location.fields THEN XNone
        ELSE location.fields["lt4:locationName"]

\* A service is well formed when it is a dict with its times as texts and
\* its destination nested as a location with a text for its name; it is
\* malformed when a key is missing, the nesting is another one or the
\* destination is not a text.
WellFormed(svc) ==
    /\ IsText(ElementOf(svc, "std"))
    /\ IsText(ElementOf(svc, "etd"))
    /\ IsText(NameOf(svc))

\* The entries of the returned mapping.
IncludedEntries ==
    UNION {{norm_out[g].items[j] : j \in 1..Len(norm_out[g].items)} : g \in 1..Len(norm_out)}

\* Neither time text of a well-formed service can be parsed.
TimeUnparseable(svc) ==
    /\ Strptime(ElementOf(svc, "std").text) = None
    /\ Strptime(Strip(ElementOf(svc, "etd").text)) = None

\* C16: one bad record never fails the batch.  For every list of services
\* the normalization does not raise; the mapping it returns holds every
\* well-formed service and no malformed one, and a service whose time texts
\* cannot be parsed is held with an empty due-in.
C16_BadRecordTolerated ==
    /\ svc_pc # "raised"
    /\ svc_pc = "done" =>
          /\ \A k \in 1..Len(services) :
                WellFormed(services[k]) <=> \E entry \in IncludedEntries : entry.idx = k
          /\ \A entry \in IncludedEntries :
                (WellFormed(services[entry.idx]) /\ TimeUnparseable(services[entry.idx]))
                    => entry.due_in_text = ""

(***************************************************************************)
(* Properties of the train cache of index, under SpecCacheInTurn (one      *)
(* request at a time) and SpecCache (overlapping requests).                *)
(***************************************************************************)
\* The train part of the handler is over for request r.
TrainsSettled(r) == req_pc[r] = "buses"
FetchSucceeded(r) == fetched[r].outcome = "ok"
FetchFailed(r) == fetched[r].outcome \in RequestExceptions

\* A mapping without the identity of its dicts: platforms in order, and of
\* each departure its fields.
DepartureFields(entry) ==
    [std |-> entry.std, etd |-> entry.etd, platform |-> entry.platform,
     destination |-> entry.destination, due_in_mins |-> entry.due_in_mins,
     due_in_text |-> entry.due_in_text]
MappingContent(mapping) ==
    [k \in 1..Len(mapping) |->
        [platform |-> mapping[k].platform,
         items |-> [m \in 1..Len(mapping[k].items) |-> DepartureFields(mapping[k].items[m])]]]

\* The latest request before r whose fetch succeeded, 0 when there is none.
LastSuccessBefore(r) ==
    IF \E q \in 1..(r - 1) : FetchSucceeded(q)
    THEN CHOOSE q \in 1..(r - 1) :
            FetchSucceeded(q) /\ \A q2 \in (q + 1)..(r - 1) : ~FetchSucceeded(q2)
    ELSE 0

\* The request read the cache file: it logged how the reading went.
ReadTheCache(r) ==
    \E k \in 1..Len(app_log[r]) :
        app_log[r][k] \in {"Loaded cached train platforms", "Failed to read trains cache"}

\* The cache file holds the snapshot of request r, whole.
CacheHolds(r) ==
    /\ cache_file # None
    /\ load_cache(cache_file[1]).ok
    /\ MappingContent(load_cache(cache_file[1]).trains) = MappingContent(fetched[r].trains)

\* C13: over any sequence of page requests, the cache is written after every
\* successful train fetch and read only by a request whose fetch failed; a
\* request whose fetch failed with a transport error shows the mapping of
\* the most recent earlier request whose fetch succeeded, the empty mapping
\* when there is none; a request whose fetch succeeded shows the mapping it
\* fetched.
C13_FallbackCache ==
    \A r \in DOMAIN req_pc :
        /\ (req_pc[r] = "load" \/ ReadTheCache(r)) => FetchFailed(r)
        /\ (TrainsSettled(r) /\ FetchSucceeded(r)) =>
              /\ trains[r] = fetched[r].trains
              /\ (\A q \in DOMAIN req_pc : q > r => req_pc[q] = "idle") => CacheHolds(r)
        /\ (TrainsSettled(r) /\ FetchFailed(r)) =>
              IF LastSuccessBefore(r) = 0 THEN trains[r] = <<>>
              ELSE MappingContent(trains[r])
                     = MappingContent(fetched[LastSuccessBefore(r)].trains)

\* A long snapshot, then a shorter one, then a failed fetch that shows the
\* shorter one.
C13_Witness ==
    /\ FetchSucceeded(1) /\ Len(fetched[1].trains) = 2
    /\ FetchSucceeded(2) /\ Len(fetched[2].trains) = 1
    /\ fetched[3].outcome = "ConnectionError"
    /\ TrainsSettled(3)
    /\ ReadTheCache(3)
    /\ Len(trains[3]) = 1
    /\ MappingContent(trains[3]) = MappingContent(fetched[2].trains)

\* No request is rewriting the cache file.
NoWriterAtWork == \A r \in DOMAIN req_pc : req_pc[r] \notin {"open", "dump"}

\* C14: overlapping requests leave the cache last-writer-wins.  Once the
\* requests that rewrote the file are through, the file holds the whole
\* snapshot of one of them; and a request whose fetch failed reads a whole
\* snapshot, never a partial or empty file that makes it show the empty
\* mapping while a snapshot had been stored.
C14_LastWriterWins ==
    /\ (NoWriterAtWork /\ \E r \in DOMAIN req_pc : FetchSucceeded(r)) =>
          \E r \in DOMAIN req_pc : FetchSucceeded(r) /\ CacheHolds(r)
    /\ \A r \in DOMAIN req_pc :
          \A k \in 1..Len(app_log[r]) : app_log[r][k] # "Failed to read trains cache"

(***************************************************************************)
(* Properties of the page handler index, under SpecPage.                   *)
(***************************************************************************)
Logged(r, message) == \E k \in 1..Len(app_log[r]) : app_log[r][k] = message

\* What the page shows of each source, given how its fetch went.  Trains:
\* the mapping fetched, or after a failure the cached mapping, empty where
\* there is no cache file.
TrainsShownFor(r) ==
    /\ FetchSucceeded(r) => page[1].trains = fetched[r].trains
    /\ FetchFailed(r) =>
          IF cache_file = None THEN page[1].trains = <<>>
          ELSE MappingContent(page[1].trains)
                 = MappingContent(get_train_departures(EarlierBoard, 0))

\* Buses: the departures of the feed, or none after a failure (and none
\* where no stop is configured, bus_log being empty then).
BusesShown ==
    IF LastIsSuccess(bus_log)
    THEN /\ page[1].buses = bus_departures(bus_feed, 8)
         /\ Len(page[1].buses) = 2
         /\ page[1].buses[1].line = "14"
    ELSE page[1].buses = <<>>

\* Tube status: the lines with an issue, or none after a failure.
TubesShownFor(r) ==
    IF Logged(r, "Tube status fetch failed")
    THEN page[1].tubes = <<>> /\ ~page[1].tube_has_data
    ELSE /\ Len(page[1].tubes) = 1
         /\ page[1].tubes[1].name = "Circle"
         /\ page[1].tubes[1].severity = "warn"
         /\ page[1].tube_has_data
         /\ page[1].tube_good_summary = "Good service on all other line."

\* Weather: the forecast computed from the payload, or the default one.
WeatherShown ==
    IF LastIsSuccess(w_log)
    THEN /\ page[1].weather = weather
         /\ page[1].weather.segments = forecast
         /\ page[1].weather.hourly_forecast = hourly_forecast
    ELSE page[1].weather = get_default_weather

\* A call the handler waits for is running or has returned; none has let
\* an exception out.
CallsReturn(r) ==
    /\ req_pc[r] = "buses_called" => bus_pc \in {"request", "sleep", "process", "done"}
    /\ req_pc[r] = "normalize" => tpc \in {"parse", "append", "done"}
    /\ req_pc[r] = "weather" => w_pc \in {"request", "sleep", "segments", "hourly", "done"}

\* C11: for every combination of outcomes of the four sources (a success or
\* a transport failure each), no failure leaves the handler or a call it
\* waits for, and the page it renders shows, source by source, the data of
\* the source or, where the source failed, its empty list, cached-or-empty
\* mapping or default forecast.
C11_IndependentDegradation ==
    \A r \in DOMAIN req_pc :
        /\ req_pc[r] # "raised"
        /\ CallsReturn(r)
        /\ req_pc[r] = "done" =>
              /\ page # None
              /\ TrainsShownFor(r)
              /\ BusesShown
              /\ TubesShownFor(r)
              /\ WeatherShown

\* Trains, buses and weather failed, with nothing cached; the tube status
\* is shown all the same.
C11_Witness ==
    /\ req_pc = <<"done">>
    /\ fetched[1].outcome = "ConnectionError"
    /\ page[1].trains = <<>>
    /\ bus_log = <<Requested("HTTPError")>>
    /\ page[1].buses = <<>>
    /\ ~Logged(1, "Tube status fetch failed")
    /\ Len(page[1].tubes) = 1
    /\ w_log = <<Requested("ConnectTimeout")>>
    /\ page[1].weather = get_default_weather
====
